---- MODULE Spec2Model ----
(***************************************************************************)
(* Model of the dashboard's SQLite index (lib/index-db.ts), the lazy       *)
(* indexing pass of the search and totals routes, the upload route, the    *)
(* admin clear-data route, and the source reader readDateData              *)
(* (lib/data-reader.ts) over the files of one date directory.              *)
(*                                                                         *)
(* Node runs every handler to completion between two awaits, and           *)
(* better-sqlite3 is synchronous: an action of this model is the code a    *)
(* handler runs between two awaits on file-system I/O.                     *)
(***************************************************************************)
EXTENDS Integers, Sequences, FiniteSets, Bags, TLC

\* ---------------------------------------------------------------- bounds
\* the requests the server handles at the same time
MaxInFlight == 2

\* the values new Date().toISOString() takes in the model
Times == {1}

\* ---------------------------------------------------------------- constants
SCHEMA_VERSION == 2

Dates == {"20260101", "20260102"}
Queries == {"q1", "q2"}

\* ---------------------------------------------------------------- values
\* JavaScript null / undefined of a normalized field
Null == "<null>"

\* x || "" of indexDateData
OrEmpty(v) == IF v = Null \/ v = "" THEN "" ELSE v

\* x ?? null of indexDateData (the audit scores): null stays null
OrNull(v) == v

\* String.prototype.toLowerCase on the strings of the model's data
ToLowerCase(s) ==
  CASE s = "Acme AB" -> "acme ab"
    [] s = "Beta AB" -> "beta ab"
    [] s = "X1" -> "x1"
    [] s = "Bygg" -> "bygg"
    [] s = "Anna" -> "anna"
    [] s = "Berg" -> "berg"
    [] s = "Ledamot" -> "ledamot"
    [] s = "Umea" -> "umea"
    [] s = "Ja" -> "ja"
    [] s = "Suppleant" -> "suppleant"
    [] s = "VD" -> "vd"
    [] OTHER -> s

RECURSIVE SelectTruthy(_)
\* parts.filter(Boolean): null, undefined and "" are dropped
SelectTruthy(parts) ==
  IF parts = << >> THEN << >>
  ELSE IF Head(parts) = Null \/ Head(parts) = ""
       THEN SelectTruthy(Tail(parts))
       ELSE <<Head(parts)>> \o SelectTruthy(Tail(parts))

\* buildSearchText: the truthy parts, joined by " " and lowercased; the joined
\* string is kept as the sequence of its lowercased words
buildSearchText(parts) ==
  LET truthy == SelectTruthy(parts)
  IN [i \in 1..Len(truthy) |-> ToLowerCase(truthy[i])]

\* ---------------------------------------------------------------- data
\* NormalizedData records as readDateData returns them
Company(mapp, orgnr, name, segment, epost, ska) ==
  [mapp |-> mapp, orgnr |-> orgnr, foretagsnamn |-> name, segment |-> segment,
   lan |-> Null, sate |-> Null, verksamhet |-> Null, epost |-> epost,
   emails_found |-> Null, domain_verified |-> Null, domain_guess |-> Null,
   domain_status |-> Null, phones_found |-> Null, ska_fa_sajt |-> ska,
   preview_url |-> Null]

Person(mapp, kid, pnr, fornamn, efternamn) ==
  [mapp |-> mapp, kungorelse_id |-> kid, foretagsnamn |-> "Acme AB",
   orgnr |-> "5560001122", roll |-> "Ledamot", personnummer |-> pnr,
   fornamn |-> fornamn, mellannamn |-> Null, efternamn |-> efternamn,
   adress |-> Null, postnummer |-> Null, ort |-> "Umea"]

Mail(mapp, email, subject) ==
  [mapp |-> mapp, folder |-> mapp, company |-> "Acme AB", email |-> email,
   subject |-> subject, domain_status |-> Null, mail_status |-> Null,
   site_preview_url |-> Null]

Audit(mapp, hemsida, datum, helhet) ==
  [mapp |-> mapp, foretagsnamn |-> "Acme AB", hemsida |-> hemsida,
   audit_datum |-> datum, bransch |-> Null, helhet |-> helhet, design |-> Null,
   innehall |-> Null, anvandbarhet |-> Null, mobil |-> Null, seo |-> Null]

Evaluation(mapp, kid, ska) ==
  [mapp |-> mapp, kungorelse_id |-> kid, foretagsnamn |-> "Acme AB",
   ska_fa_sajt |-> ska, konfidens |-> Null, preview_url |-> Null]

cAcme == Company("X1", "5560001122", "Acme AB", "Bygg", Null, Null)
cBeta == Company("", "5560002233", "Beta AB", Null, "info@beta.se", "Ja")
pAnna == Person("X1", "K1", "800101-0000", "Anna", "Berg")
pNoId == Person(Null, "K1", Null, "Anna", Null)
mHej == Mail("X1", "info@acme.se", "hej acme")
mOm == Mail("X1", "info@acme.se", "om er sajt")
aAcme == Audit("X1", "acme.se", "2026-01-01", 7)
eAcme == Evaluation("X1", "K1", "Ja")

\* a directory with no source file: every list is empty
EmptyData ==
  [companies |-> << >>, people |-> << >>, mails |-> << >>, audits |-> << >>,
   evaluations |-> << >>]

\* one company with one person and one mail
DataA ==
  [companies |-> <<cAcme>>, people |-> <<pAnna>>, mails |-> <<mHej>>,
   audits |-> << >>, evaluations |-> << >>]

\* two .db files that both hold Acme (readDateData pushes both), a person
\* without personal id, two mails, an audit and an evaluation
DataB ==
  [companies |-> <<cAcme, cBeta, cAcme>>, people |-> <<pAnna, pNoId>>,
   mails |-> <<mHej, mOm>>, audits |-> <<aAcme>>, evaluations |-> <<eAcme>>]

\* one company and one person, no mail
DataC ==
  [companies |-> <<cAcme>>, people |-> <<pAnna>>, mails |-> << >>,
   audits |-> << >>, evaluations |-> << >>]

\* a company with Acme's organisation number and no folder id, a mail whose
\* folder id is the one of no company, an evaluation without folder id
cNoMapp == [cAcme EXCEPT !.mapp = Null]
mGhost == Mail("X9", "info@ghost.se", "hej")
eNoMapp == Evaluation(Null, "K3", "Ja")

\* the company without folder id, a person without personal id, the mail and
\* the evaluation above
DataD ==
  [companies |-> <<cNoMapp>>, people |-> <<pNoId>>, mails |-> <<mGhost>>,
   audits |-> << >>, evaluations |-> <<eNoMapp>>]

\* Acme after the domain research: the row has a guessed domain
cAcmeDomain == [cAcme EXCEPT !.domain_guess = "acme.se"]

\* the researched company alone
DataE ==
  [companies |-> <<cAcmeDomain>>, people |-> << >>, mails |-> << >>,
   audits |-> << >>, evaluations |-> << >>]

\* what a date directory can hold: "A", "B", "C", "D" and "E" readable source
\* files, "Bad" a file that makes readDateData throw (getDataFromSQLite has no
\* try/catch)
Contents == {"A", "B", "C", "D", "E", "Bad"}
NoDir == "NoDir"

\* readDateData on a directory with the given content (it throws on "Bad"
\* and on a directory that does not exist)
Readable(c) == c \in {"A", "B", "C", "D", "E"}
readDateData(c) ==
  CASE c = "A" -> DataA
    [] c = "B" -> DataB
    [] c = "C" -> DataC
    [] c = "D" -> DataD
    [] c = "E" -> DataE
    [] OTHER -> EmptyData

\* ---------------------------------------------------------------- source files
\* the files a date directory holds in the model
MaxFiles == 3

\* records that differ from those above outside their natural key
cAcmeFinal == [cAcme EXCEPT !.epost = "info@acme.se", !.ska_fa_sajt = "Ja"]
cAcmeK == [cAcme EXCEPT !.segment = Null]
pAnnaFinal == [pAnna EXCEPT !.roll = "Suppleant"]
pAnnaFinal2 == [pAnna EXCEPT !.roll = "VD"]
mHejLater == [mHej EXCEPT !.mail_status = "sent"]
aAcmeLater == [aAcme EXCEPT !.helhet = 3]

\* two mails whose fields hold the character the key is joined with
mPipeA == Mail("X1", "a|b", "c")
mPipeB == Mail("X1", "a", "b|c")

\* a source file: its name and the normalized lists getDataFromSQLite (the
\* first two) or getDataFromExcel returns for it
File(name, companies, people, mails, audits, evaluations) ==
  [name |-> name, companies |-> companies, people |-> people, mails |-> mails,
   audits |-> audits, evaluations |-> evaluations]

\* the files the model draws the directories from
SourceFiles ==
  {File("a.db", <<cAcme>>, <<pAnna>>, << >>, << >>, << >>),
   File("b.db", <<cAcme, cBeta>>, <<pNoId>>, << >>, << >>, << >>),
   File("final_1.xlsx", <<cAcmeFinal>>, <<pAnnaFinal>>, <<mHej>>, <<aAcme>>,
        <<eAcme>>),
   File("final_1.xlsx", << >>, << >>, <<mPipeA>>, << >>, << >>),
   File("final_2.xlsx", <<cAcmeFinal, cBeta>>, <<pAnnaFinal2>>, << >>, << >>,
        << >>),
   File("kungorelser_1.xlsx", <<cAcmeK, cBeta>>, <<pAnna, pNoId>>, << >>,
        << >>, << >>),
   File("mail_ready_1.xlsx", << >>, << >>, <<mHejLater, mOm, mPipeB>>,
        <<aAcmeLater>>, << >>),
   File("export.xlsx", <<cBeta>>, <<pNoId>>, <<mOm>>, <<aAcme>>, << >>),
   File("broken.db", << >>, << >>, << >>, << >>, << >>)}

\* a file that is not the database its name announces: new Database and the
\* first statement on it throw (getDataFromSQLite catches nothing)
Malformed(name) == name = "broken.db"

\* file.endsWith(".db") and file.endsWith(".xlsx") on the names of the model
EndsWithDb(name) == name \in {"a.db", "b.db", "broken.db"}
EndsWithXlsx(name) ==
  name \in {"final_1.xlsx", "final_2.xlsx", "kungorelser_1.xlsx",
            "mail_ready_1.xlsx", "export.xlsx"}

\* file.includes("final"), file.includes("kungorelser") and
\* file.includes("mail_ready") on the names of the model
IncludesFinal(name) == name \in {"final_1.xlsx", "final_2.xlsx"}
IncludesKungorelser(name) == name = "kungorelser_1.xlsx"
IncludesMailReady(name) == name = "mail_ready_1.xlsx"

\* readdirSync(dateDir): the files of the directory, no name twice, in the
\* order the file system lists them
Listings ==
  {fs \in UNION {[1..n -> SourceFiles] : n \in 0..MaxFiles} :
     \A i \in 1..Len(fs), j \in 1..Len(fs) : i # j => fs[i].name # fs[j].name}

\* ---------------------------------------------------------------- the reader
\* the locals of readDateData before its loops
ReaderStart ==
  [data |-> EmptyData, source |-> "unknown", preferCompanySource |-> FALSE,
   preferPeopleSource |-> FALSE]

\* the body of the first loop for one file: a .db file's companies and
\* people are pushed
ReadDbFile(st, file) ==
  IF ~EndsWithDb(file.name) THEN st
  ELSE [st EXCEPT !.data.companies = @ \o file.companies,
                  !.data.people = @ \o file.people,
                  !.source = "sqlite"]

RECURSIVE ReadDbFiles(_, _)
\* the first loop: for (const file of files) if (file.endsWith(".db"))
ReadDbFiles(st, files) ==
  IF files = << >> THEN st
  ELSE ReadDbFiles(ReadDbFile(st, Head(files)), Tail(files))

\* a company list that every .xlsx file with companies overwrites
XlsxCompaniesLastWins(st, file) ==
  IF file.companies = << >> THEN st.data.companies ELSE file.companies

\* the company list after one .xlsx file
XlsxCompanies(st, file) ==
  IF file.companies = << >> THEN st.data.companies
  ELSE IF IncludesFinal(file.name) \/ IncludesKungorelser(file.name)
       THEN file.companies
  ELSE IF ~st.preferCompanySource /\ st.data.companies = << >>
       THEN file.companies
  ELSE st.data.companies

\* a people list that a final file does not overwrite
XlsxPeopleFirstWins(st, file) ==
  IF file.people = << >> THEN st.data.people
  ELSE IF ~st.preferPeopleSource /\ st.data.people = << >> THEN file.people
  ELSE st.data.people

\* the people list after one .xlsx file
XlsxPeople(st, file) ==
  IF file.people = << >> THEN st.data.people
  ELSE IF IncludesFinal(file.name) THEN file.people
  ELSE IF ~st.preferPeopleSource /\ st.data.people = << >> THEN file.people
  ELSE st.data.people

\* the provenance label after one .xlsx file
XlsxSource(source, name) ==
  IF IncludesFinal(name) THEN "excel-final"
  ELSE IF IncludesMailReady(name) /\ source = "unknown" THEN "excel-mail"
  ELSE IF source = "unknown" THEN "excel"
  ELSE source

\* the body of the second loop for one .xlsx file
ReadXlsxFile(st, file) ==
  [data |->
     [companies |-> XlsxCompanies(st, file),
      people |-> XlsxPeople(st, file),
      mails |-> st.data.mails \o file.mails,
      audits |-> st.data.audits \o file.audits,
      evaluations |->
        IF file.evaluations # << >> /\ st.data.evaluations = << >>
        THEN file.evaluations ELSE st.data.evaluations],
   source |-> XlsxSource(st.source, file.name),
   preferCompanySource |->
     \/ st.preferCompanySource
     \/ /\ file.companies # << >>
        /\ IncludesFinal(file.name) \/ IncludesKungorelser(file.name),
   preferPeopleSource |->
     \/ st.preferPeopleSource
     \/ file.people # << >> /\ IncludesFinal(file.name)]

\* `${v}` of a template literal: null gives the text "null"
TemplateText(v) == IF v = Null THEN "null" ELSE v

\* the keys readDateData passes to deduplicateByCompositeKey
MailKey(m) ==
  TemplateText(m.mapp) \o "|" \o TemplateText(m.email) \o "|"
    \o TemplateText(m.subject)

AuditKey(a) ==
  TemplateText(a.mapp) \o "|" \o TemplateText(a.hemsida) \o "|"
    \o TemplateText(a.audit_datum)

RECURSIVE FilterUnseen(_, _, _)
\* items.filter(...) with the Set seen: an item whose key is empty or seen is
\* dropped, the others are kept and their key is added
FilterUnseen(items, keys, seen) ==
  IF items = << >> THEN << >>
  ELSE IF Head(keys) = "" \/ Head(keys) \in seen
       THEN FilterUnseen(Tail(items), Tail(keys), seen)
       ELSE <<Head(items)>>
              \o FilterUnseen(Tail(items), Tail(keys), seen \cup {Head(keys)})

\* a deduplication that keeps every item
KeepEveryItem(items, keys) == items

\* deduplicateByCompositeKey(items, keyFn), keys[i] being keyFn(items[i])
deduplicateByCompositeKey(items, keys) == FilterUnseen(items, keys, {})

\* mergeLinkedData(data): the lists of the bundle are those it is given (the
\* flags it derives are not part of the lists)
mergeLinkedData(d) == d

\* the end of readDateData: the two deduplications, mergeLinkedData, and the
\* result { data, source }
ReadResult(st) ==
  [data |->
     mergeLinkedData(
       [st.data EXCEPT
          !.mails = deduplicateByCompositeKey(
                      @, [i \in 1..Len(@) |-> MailKey(@[i])]),
          !.audits = deduplicateByCompositeKey(
                       @, [i \in 1..Len(@) |-> AuditKey(@[i])])]),
   source |-> st.source]

\* ---------------------------------------------------------------- the index
\* The index file _index.sqlite: exists is FALSE when the file is absent;
\* schemaTable is "none" when the file has no _schema_version table, "corrupt"
\* when reading it throws, "ok" otherwise; version is the row of
\* _schema_version that SELECT version ... LIMIT 1 reads, the lowest of its
\* rows (no other row is ever read), NoVersion when the table is empty; the
\* five content tables are their rows in rowid order; indexed_dates is the bag
\* of its rows (its primary key is date).
NoVersion == -1

NoIndex ==
  [exists |-> FALSE, schemaTable |-> "none", version |-> NoVersion,
   companies |-> << >>, people |-> << >>, mails |-> << >>, audits |-> << >>,
   evaluations |-> << >>, indexed_dates |-> EmptyBag]

\* isIndexAvailable: existsSync(getIndexDbPath())
isIndexAvailable(db) == db.exists

\* a dropAllTables that forgets indexed_dates
DropContentOnly(db) ==
  [db EXCEPT !.schemaTable = "none", !.version = NoVersion, !.companies = << >>,
             !.people = << >>, !.mails = << >>, !.audits = << >>,
             !.evaluations = << >>]

\* dropAllTables: DROP TABLE IF EXISTS of the seven tables
dropAllTables(db) ==
  [db EXCEPT !.schemaTable = "none", !.version = NoVersion, !.companies = << >>,
             !.people = << >>, !.mails = << >>, !.audits = << >>,
             !.evaluations = << >>, !.indexed_dates = EmptyBag]

\* SELECT version FROM _schema_version LIMIT 1, then row?.version ?? 0
currentVersion(db) == IF db.version = NoVersion THEN 0 ELSE db.version

\* INSERT OR REPLACE INTO _schema_version (version) VALUES (v): version is the
\* primary key, so a row with another version stays, and the lowest row is
\* then the lower of the two
InsertOrReplaceVersion(stored, v) ==
  IF stored = NoVersion \/ v < stored THEN v ELSE stored

\* a migrateIfNeeded that rebuilds on any stored version other than the
\* compiled one
NeedsRebuildOnMismatch(db) ==
  \/ db.schemaTable = "none"
  \/ db.schemaTable = "corrupt"
  \/ db.version # SCHEMA_VERSION

\* does migrateIfNeeded drop the tables of this file?
NeedsRebuild(db) ==
  \/ db.schemaTable = "none"
  \/ db.schemaTable = "corrupt"
  \/ currentVersion(db) < SCHEMA_VERSION

\* a migrateIfNeeded whose comparison is <= : the compiled version rebuilds too
migrateAtOrBelow(db) ==
  IF \/ db.schemaTable = "none"
     \/ db.schemaTable = "corrupt"
     \/ currentVersion(db) <= SCHEMA_VERSION
  THEN dropAllTables(db) ELSE db

\* migrateIfNeeded: no version table, a version that cannot be read, or a
\* stored version below SCHEMA_VERSION drop every table
migrateIfNeeded(db) ==
  IF NeedsRebuild(db) THEN dropAllTables(db) ELSE db

\* ensureIndexDb: new Database(path) creates the file, migrateIfNeeded, CREATE
\* TABLE IF NOT EXISTS, then INSERT OR REPLACE INTO _schema_version
ensureIndexDb(db) ==
  LET opened == [db EXCEPT !.exists = TRUE]
      migrated == migrateIfNeeded(opened)
  IN [migrated EXCEPT !.schemaTable = "ok",
                      !.version = InsertOrReplaceVersion(@, SCHEMA_VERSION)]

\* getIndexedDates: the empty set without opening anything when the file is
\* absent, else the dates of indexed_dates after ensureIndexDb
getIndexedDates(db) ==
  IF ~isIndexAvailable(db) THEN {}
  ELSE {m.date : m \in BagToSet(ensureIndexDb(db).indexed_dates)}

\* the file after getIndexedDates
AfterGetIndexedDates(db) ==
  IF ~isIndexAvailable(db) THEN db ELSE ensureIndexDb(db)

\* ---------------------------------------------------------------- rows
\* the parameters indexDateData binds for one company
CompanyRow(date, company) ==
  [date |-> date,
   mapp |-> OrEmpty(company.mapp),
   orgnr |-> OrEmpty(company.orgnr),
   foretagsnamn |-> OrEmpty(company.foretagsnamn),
   segment |-> OrEmpty(company.segment),
   lan |-> OrEmpty(company.lan),
   epost |-> OrEmpty(company.epost),
   emails_found |-> OrEmpty(company.emails_found),
   domain_verified |-> OrEmpty(company.domain_verified),
   domain_guess |-> OrEmpty(company.domain_guess),
   domain_status |-> OrEmpty(company.domain_status),
   phones_found |-> OrEmpty(company.phones_found),
   ska_fa_sajt |-> OrEmpty(company.ska_fa_sajt),
   preview_url |-> OrEmpty(company.preview_url),
   search_text |-> buildSearchText(<<company.foretagsnamn, company.orgnr,
                     company.mapp, company.sate, company.segment, company.lan,
                     company.epost, company.emails_found, company.verksamhet>>)]

PersonRow(date, person) ==
  [date |-> date,
   mapp |-> OrEmpty(person.mapp),
   kungorelse_id |-> OrEmpty(person.kungorelse_id),
   foretagsnamn |-> OrEmpty(person.foretagsnamn),
   orgnr |-> OrEmpty(person.orgnr),
   roll |-> OrEmpty(person.roll),
   personnummer |-> OrEmpty(person.personnummer),
   fornamn |-> OrEmpty(person.fornamn),
   mellannamn |-> OrEmpty(person.mellannamn),
   efternamn |-> OrEmpty(person.efternamn),
   adress |-> OrEmpty(person.adress),
   postnummer |-> OrEmpty(person.postnummer),
   ort |-> OrEmpty(person.ort),
   search_text |-> buildSearchText(<<person.fornamn, person.mellannamn,
                     person.efternamn, person.foretagsnamn, person.orgnr,
                     person.kungorelse_id, person.mapp, person.roll,
                     person.ort>>)]

MailRow(date, mail) ==
  [date |-> date,
   mapp |-> OrEmpty(mail.mapp),
   folder |-> OrEmpty(mail.folder),
   company |-> OrEmpty(mail.company),
   email |-> OrEmpty(mail.email),
   subject |-> OrEmpty(mail.subject),
   domain_status |-> OrEmpty(mail.domain_status),
   mail_status |-> OrEmpty(mail.mail_status),
   site_preview_url |-> OrEmpty(mail.site_preview_url)]

AuditRow(date, audit) ==
  [date |-> date,
   mapp |-> OrEmpty(audit.mapp),
   foretagsnamn |-> OrEmpty(audit.foretagsnamn),
   hemsida |-> OrEmpty(audit.hemsida),
   audit_datum |-> OrEmpty(audit.audit_datum),
   bransch |-> OrEmpty(audit.bransch),
   helhet |-> OrNull(audit.helhet),
   design |-> OrNull(audit.design),
   innehall |-> OrNull(audit.innehall),
   anvandbarhet |-> OrNull(audit.anvandbarhet),
   mobil |-> OrNull(audit.mobil),
   seo |-> OrNull(audit.seo)]

EvaluationRow(date, evaluation) ==
  [date |-> date,
   mapp |-> OrEmpty(evaluation.mapp),
   kungorelse_id |-> OrEmpty(evaluation.kungorelse_id),
   foretagsnamn |-> OrEmpty(evaluation.foretagsnamn),
   ska_fa_sajt |-> OrEmpty(evaluation.ska_fa_sajt),
   konfidens |-> OrEmpty(evaluation.konfidens),
   preview_url |-> OrEmpty(evaluation.preview_url)]

\* a transaction without its DELETEs
NoDelete(rows, date) == rows

\* a DELETE without its WHERE clause
DeleteEveryDate(rows, date) == << >>

\* DELETE FROM <table> WHERE date = ?
DeleteWhereDate(rows, date) == SelectSeq(rows, LAMBDA r : r.date # date)

\* an insert loop that skips the companies without a mapp
InsertCompaniesWithMapp(rows, date, companies) ==
  LET kept == SelectSeq(companies, LAMBDA c : OrEmpty(c.mapp) # "")
  IN rows \o [i \in 1..Len(kept) |-> CompanyRow(date, kept[i])]

\* data.<list>.forEach((x) => insert.run({...})): one row per element, in
\* list order
InsertCompanies(rows, date, companies) ==
  rows \o [i \in 1..Len(companies) |-> CompanyRow(date, companies[i])]

InsertPeople(rows, date, people) ==
  rows \o [i \in 1..Len(people) |-> PersonRow(date, people[i])]

InsertMails(rows, date, mails) ==
  rows \o [i \in 1..Len(mails) |-> MailRow(date, mails[i])]

InsertAudits(rows, date, audits) ==
  rows \o [i \in 1..Len(audits) |-> AuditRow(date, audits[i])]

InsertEvaluations(rows, date, evaluations) ==
  rows \o [i \in 1..Len(evaluations) |-> EvaluationRow(date, evaluations[i])]

\* an INSERT INTO indexed_dates without its ON CONFLICT clause, on a table
\* without its primary key
InsertMarker(markers, date, now) ==
  markers (+) SetToBag({[date |-> date, updated_at |-> now]})

\* INSERT INTO indexed_dates ... ON CONFLICT(date) DO UPDATE SET updated_at
updateDate(markers, date, now) ==
  [m \in {x \in BagToSet(markers) : x.date # date} |-> markers[m]]
  (+) SetToBag({[date |-> date, updated_at |-> now]})

\* ---------------------------------------------------------------- the write
\* The statements of the transaction of indexDateData, in order: five DELETEs,
\* five insert loops, the upsert of the marker.
Statements == 1..11

\* the statements that throw in the model (0: none does): the first DELETE,
\* the first and the third insert loop, the upsert of the marker
FailPoints == {0, 1, 6, 8, 11}

\* the file after statement k of the transaction
RunStatement(db, k, date, data, now) ==
  CASE k = 1 -> [db EXCEPT !.companies = DeleteWhereDate(@, date)]
    [] k = 2 -> [db EXCEPT !.people = DeleteWhereDate(@, date)]
    [] k = 3 -> [db EXCEPT !.mails = DeleteWhereDate(@, date)]
    [] k = 4 -> [db EXCEPT !.audits = DeleteWhereDate(@, date)]
    [] k = 5 -> [db EXCEPT !.evaluations = DeleteWhereDate(@, date)]
    [] k = 6 -> [db EXCEPT !.companies = InsertCompanies(@, date, data.companies)]
    [] k = 7 -> [db EXCEPT !.people = InsertPeople(@, date, data.people)]
    [] k = 8 -> [db EXCEPT !.mails = InsertMails(@, date, data.mails)]
    [] k = 9 -> [db EXCEPT !.audits = InsertAudits(@, date, data.audits)]
    [] k = 10 -> [db EXCEPT !.evaluations =
                    InsertEvaluations(@, date, data.evaluations)]
    [] OTHER -> [db EXCEPT !.indexed_dates = updateDate(@, date, now)]

RECURSIVE RunStatements(_, _, _, _, _)
\* the file after statements 1..k
RunStatements(db, k, date, data, now) ==
  IF k = 0 THEN db
  ELSE RunStatement(RunStatements(db, k - 1, date, data, now), k, date, data, now)

\* the statements run one by one, each committed on its own: what statement
\* failAt throws leaves the statements before it in the file
TransactionNoRollback(db, date, data, now, failAt) ==
  IF failAt = 0 THEN RunStatements(db, 11, date, data, now)
  ELSE RunStatements(db, failAt - 1, date, data, now)

\* the marker written before, and outside of, the transaction
TransactionMarkerFirst(db, date, data, now, failAt) ==
  IF failAt = 0 THEN RunStatements(db, 11, date, data, now)
  ELSE [db EXCEPT !.indexed_dates = updateDate(@, date, now)]

\* db.transaction(fn)(): BEGIN, the statements, COMMIT; when statement failAt
\* throws (failAt = 0: none does) the transaction is rolled back
transaction(db, date, data, now, failAt) ==
  IF failAt = 0 THEN RunStatements(db, 11, date, data, now) ELSE db

\* indexDateData: ensureIndexDb, then the transaction (it throws when a
\* statement does, after the rollback)
indexDateData(db, date, data, now, failAt) ==
  transaction(ensureIndexDb(db), date, data, now, failAt)

\* ---------------------------------------------------------------- state
VARIABLES
  disk,       \* date -> what the date directory holds, NoDir when it is absent
  index,      \* the index file
  pc,         \* query -> where the GET handler of the query is
  dateDirs,   \* query -> the dates getAllDateDirPaths returned to it
  pending,    \* query -> the dates ensureIndexForDates has still to index
  data,       \* query -> the data its last readDateData returned
  upc,        \* where the upload handler is
  udate,      \* the X-Date of the upload
  udata,      \* the data the upload's readDateData returned
  cpc,        \* where the clear-data handler is
  cfolders,   \* the date folders clear-data has still to remove
  committed,  \* history: date -> the data of the last committed write, if any
  reader,     \* the readDateData call under study: its position and locals
  roots,      \* the data roots under study: what each holds, if it exists
  answer      \* the last answer of the operation under study

vars == <<disk, index, pc, dateDirs, pending, data, upc, udate, udata,
          cpc, cfolders, committed, reader, roots, answer>>

\* the variables of the operations studied on their own
studyVars == <<reader, roots, answer>>

\* the variables of the handlers
handlerVars == <<disk, index, pc, dateDirs, pending, data, upc, udate, udata,
                 cpc, cfolders, committed>>

\* ---------------------------------------------------------------- history
NoHistory == [d \in Dates |-> << >>]

\* the history after the file db was opened: a rebuild forgets every write
HistoryAfterOpen(h, db) == IF NeedsRebuild(db) THEN NoHistory ELSE h

\* the history after indexDateData(date, d, ...) on the file db
CommittedAfter(db, date, d, failAt) ==
  IF failAt # 0 THEN HistoryAfterOpen(committed, db)
  ELSE [HistoryAfterOpen(committed, db) EXCEPT ![date] = <<d>>]

\* ---------------------------------------------------------------- listing
\* getAllDateDirs: the date directories, sorted descending
DatesDescending == <<"20260102", "20260101">>
getAllDateDirs(dk) == SelectSeq(DatesDescending, LAMBDA d : dk[d] # NoDir)

\* the orders in which readdir can list the date folders
ReaddirOrders(dk) ==
  {o \in {<< >>, <<"20260101">>, <<"20260102">>, <<"20260101", "20260102">>,
          <<"20260102", "20260101">>} :
     /\ {o[i] : i \in 1..Len(o)} = {d \in Dates : dk[d] # NoDir}
     /\ Len(o) = Cardinality({d \in Dates : dk[d] # NoDir})}

\* ---------------------------------------------------------------- answers
\* the rows the SELECTs of querySearchFromIndex / queryTotalsFromIndex read
\* from the file db for one date
RowsRead(db, date) ==
  [companies |-> SelectSeq(db.companies, LAMBDA r : r.date = date),
   people |-> SelectSeq(db.people, LAMBDA r : r.date = date),
   mails |-> SelectSeq(db.mails, LAMBDA r : r.date = date),
   audits |-> SelectSeq(db.audits, LAMBDA r : r.date = date),
   evaluations |-> SelectSeq(db.evaluations, LAMBDA r : r.date = date)]

\* ---------------------------------------------------------------- reader state
\* no readDateData call is under study
ReaderIdle ==
  [pc |-> "idle", files |-> << >>, rest |-> << >>, st |-> ReaderStart,
   result |-> [data |-> EmptyData, source |-> "unknown"]]

\* a root that does not exist, and no root under study
NoRoot == [exists |-> FALSE, entries |-> {}]
NoRoots == [persistent |-> NoRoot, local |-> NoRoot]

\* no operation under study has answered
NoAnswer == [kind |-> "none"]

\* ---------------------------------------------------------------- Init
\* an index a previous deployment left: 20260101 indexed with DataA
PriorIndex(schemaTable, version) ==
  [RunStatements(ensureIndexDb(NoIndex), 11, "20260101", DataA, 1) EXCEPT
     !.schemaTable = schemaTable, !.version = version]

PriorHistory == [NoHistory EXCEPT !["20260101"] = <<DataA>>]

\* the schema tables a previous deployment can have left: none (the build
\* before schema versions), an unreadable one, an empty one, versions 1, 2, 3
PriorSchemas ==
  {<<"none", NoVersion>>, <<"corrupt", NoVersion>>, <<"ok", NoVersion>>,
   <<"ok", SCHEMA_VERSION - 1>>, <<"ok", SCHEMA_VERSION>>,
   <<"ok", SCHEMA_VERSION + 1>>}

Init ==
  /\ \/ /\ index = NoIndex
        /\ disk = [d \in Dates |-> NoDir]
        /\ committed = NoHistory
     \/ /\ \E sc \in PriorSchemas : index = PriorIndex(sc[1], sc[2])
        /\ disk = [d \in Dates |-> IF d = "20260101" THEN "A" ELSE NoDir]
        /\ committed = PriorHistory
  /\ pc = [p \in Queries |-> "idle"]
  /\ dateDirs = [p \in Queries |-> << >>]
  /\ pending = [p \in Queries |-> << >>]
  /\ data = [p \in Queries |-> EmptyData]
  /\ upc = "idle"
  /\ udate = "20260101"
  /\ udata = EmptyData
  /\ cpc = "idle"
  /\ cfolders = << >>
  /\ reader = ReaderIdle
  /\ roots = NoRoots
  /\ answer = NoAnswer

\* ---------------------------------------------------------------- requests
\* the handlers that have started and have not sent their answer
InFlight ==
  Cardinality({p \in Queries : pc[p] # "idle"})
  + (IF upc # "idle" THEN 1 ELSE 0) + (IF cpc # "idle" THEN 1 ELSE 0)

\* ---------------------------------------------------------------- queries
\* the set of the dates of a listing
DirSet(dirs) == {dirs[i] : i \in 1..Len(dirs)}

\* the handler of query p has built its answer: "answered" from
\* querySearchFromIndex / queryTotalsFromIndex, "fallback" from the loop of
\* GET over no date directory, "failed" the 500 of the catch of GET
Answers(p, kind) ==
  /\ pc' = [pc EXCEPT ![p] = kind]
  /\ dateDirs' = [dateDirs EXCEPT ![p] = << >>]
  /\ pending' = [pending EXCEPT ![p] = << >>]
  /\ data' = [data EXCEPT ![p] = EmptyData]

\* a pass that indexes every date of the listing
EveryListedDate(dirs, indexed) == dirs

\* the dates of the listing that ensureIndexForDates has to index: those the
\* set returned by getIndexedDates does not hold
NotIndexed(dirs, indexed) == SelectSeq(dirs, LAMBDA d : d \notin indexed)

\* GET of /api/search and of /api/data/totals, up to the listing: with no
\* date directory the handler answers from its loop over none
QList(p) ==
  /\ pc[p] = "idle"
  /\ InFlight < MaxInFlight
  /\ IF getAllDateDirs(disk) = << >>
     THEN /\ pc' = [pc EXCEPT ![p] = "fallback"]
          /\ UNCHANGED dateDirs
     ELSE /\ dateDirs' = [dateDirs EXCEPT ![p] = getAllDateDirs(disk)]
          /\ pc' = [pc EXCEPT ![p] = "ensure"]
  /\ UNCHANGED <<disk, index, pending, data, upc, udate, udata, cpc,
                 cfolders, committed>>
  /\ UNCHANGED studyVars

\* ensureIndexForDates up to its first await: getIndexedDates, then either
\* nothing to index and the query runs, or readDateData of the first date
QEnsure(p) ==
  /\ pc[p] = "ensure"
  /\ committed' = HistoryAfterOpen(committed, index)
  /\ IF NotIndexed(dateDirs[p], getIndexedDates(index)) = << >>
     THEN /\ index' = ensureIndexDb(AfterGetIndexedDates(index))
          /\ Answers(p, "answered")
     ELSE /\ index' = AfterGetIndexedDates(index)
          /\ pending' = [pending EXCEPT
                           ![p] = NotIndexed(dateDirs[p], getIndexedDates(index))]
          /\ pc' = [pc EXCEPT ![p] = "read"]
          /\ UNCHANGED <<dateDirs, data>>
  /\ UNCHANGED <<disk, upc, udate, udata, cpc, cfolders>>
  /\ UNCHANGED studyVars

\* await readDateData(path) of ensureIndexForDates (it awaits parseExcelFile,
\* so other handlers run before it returns): an exception leaves
\* ensureIndexForDates and is caught by GET, which answers 500
QRead(p) ==
  /\ pc[p] = "read"
  /\ IF Readable(disk[Head(pending[p])])
     THEN /\ data' = [data EXCEPT ![p] = readDateData(disk[Head(pending[p])])]
          /\ pc' = [pc EXCEPT ![p] = "index"]
          /\ UNCHANGED <<dateDirs, pending>>
     ELSE Answers(p, "failed")
  /\ UNCHANGED <<disk, index, upc, udate, udata, cpc, cfolders,
                 committed>>
  /\ UNCHANGED studyVars

\* indexDateData(date, data) of ensureIndexForDates, then the next date's
\* readDateData (data is a const of the loop body: it is gone with the
\* iteration) or, after the last date, the query; an exception of
\* indexDateData is caught by GET, which answers 500
QIndex(p) ==
  /\ pc[p] = "index"
  /\ \E now \in Times, failAt \in FailPoints :
       /\ committed' = CommittedAfter(index, Head(pending[p]), data[p], failAt)
       /\ IF failAt # 0
          THEN /\ index' = indexDateData(index, Head(pending[p]), data[p], now, failAt)
               /\ Answers(p, "failed")
          ELSE IF Tail(pending[p]) = << >>
          THEN /\ index' = ensureIndexDb(
                             indexDateData(index, Head(pending[p]), data[p], now, failAt))
               /\ Answers(p, "answered")
          ELSE /\ index' = indexDateData(index, Head(pending[p]), data[p], now, failAt)
               /\ pending' = [pending EXCEPT ![p] = Tail(pending[p])]
               /\ data' = [data EXCEPT ![p] = EmptyData]
               /\ pc' = [pc EXCEPT ![p] = "read"]
               /\ UNCHANGED dateDirs
  /\ UNCHANGED <<disk, upc, udate, udata, cpc, cfolders>>
  /\ UNCHANGED studyVars

\* NextResponse.json: the answer is sent
QReturn(p) ==
  /\ pc[p] \in {"answered", "fallback", "failed"}
  /\ pc' = [pc EXCEPT ![p] = "idle"]
  /\ UNCHANGED <<disk, index, dateDirs, pending, data, upc, udate, udata, cpc, cfolders, committed>>
  /\ UNCHANGED studyVars

\* ---------------------------------------------------------------- upload
\* the uploads of the model: the date and what the archive holds
Uploads ==
  {<<"20260101", "A">>, <<"20260101", "B">>, <<"20260102", "C">>,
   <<"20260102", "Bad">>}

\* the upload handler returns
UploadReturns ==
  /\ upc' = "idle"
  /\ udate' = "20260101"
  /\ udata' = EmptyData

\* POST of the upload route, up to the end of extractZipFile: the files of the
\* archive are in the date directory (the directory between mkdir and the end
\* of the extraction, and a failing extraction, are not modelled)
UExtract(d, c) ==
  /\ upc = "idle"
  /\ InFlight < MaxInFlight
  /\ disk' = [disk EXCEPT ![d] = c]
  /\ upc' = "read"
  /\ udate' = d
  /\ UNCHANGED <<index, pc, dateDirs, pending, data, udata, cpc, cfolders,
                 committed>>
  /\ UNCHANGED studyVars

\* an upload that answers once the archive is extracted and leaves the
\* indexing to whoever comes next
UReadReturns ==
  /\ upc = "read"
  /\ UploadReturns
  /\ UNCHANGED <<disk, index, pc, dateDirs, pending, data, cpc, cfolders,
                 committed>>
  /\ UNCHANGED studyVars

\* readDateData(targetDir) of the upload: an exception is caught and logged
URead ==
  /\ upc = "read"
  /\ IF Readable(disk[udate])
     THEN /\ udata' = readDateData(disk[udate])
          /\ upc' = "index"
          /\ UNCHANGED udate
     ELSE UploadReturns
  /\ UNCHANGED <<disk, index, pc, dateDirs, pending, data, cpc, cfolders,
                 committed>>
  /\ UNCHANGED studyVars

\* indexDateData(dateStr, data) of the upload: an exception is caught and logged
UIndex ==
  /\ upc = "index"
  /\ \E now \in Times, failAt \in FailPoints :
       /\ index' = indexDateData(index, udate, udata, now, failAt)
       /\ committed' = CommittedAfter(index, udate, udata, failAt)
  /\ UploadReturns
  /\ UNCHANGED <<disk, pc, dateDirs, pending, data, cpc, cfolders>>
  /\ UNCHANGED studyVars

\* ---------------------------------------------------------------- clear-data
\* DELETE of the clear-data route: readdir of the data directory
CList ==
  /\ cpc = "idle"
  /\ InFlight < MaxInFlight
  /\ \E order \in ReaddirOrders(disk) : cfolders' = order
  /\ cpc' = "rm"
  /\ UNCHANGED <<disk, index, pc, dateDirs, pending, data, upc, udate, udata, committed>>
  /\ UNCHANGED studyVars

\* rm(folderPath, recursive, force) of the next date folder
CRm ==
  /\ cpc = "rm"
  /\ cfolders # << >>
  /\ disk' = [disk EXCEPT ![Head(cfolders)] = NoDir]
  /\ cfolders' = Tail(cfolders)
  /\ UNCHANGED <<index, pc, dateDirs, pending, data, upc, udate, udata,
                 cpc, committed>>
  /\ UNCHANGED studyVars

\* rm(indexPath) when the index file exists, and the answer
CRmIndex ==
  /\ cpc = "rm"
  /\ cfolders = << >>
  /\ index' = NoIndex
  /\ committed' = NoHistory
  /\ cpc' = "idle"
  /\ UNCHANGED <<disk, pc, dateDirs, pending, data, upc, udate, udata,
                 cfolders>>
  /\ UNCHANGED studyVars

\* ---------------------------------------------------------------- Spec
Next ==
  \/ \E p \in Queries : QList(p)
  \/ \E p \in Queries : QEnsure(p)
  \/ \E p \in Queries : QRead(p)
  \/ \E p \in Queries : QIndex(p)
  \/ \E p \in Queries : QReturn(p)
  \/ \E u \in Uploads : UExtract(u[1], u[2])
  \/ URead
  \/ UIndex
  \/ CList
  \/ CRm
  \/ CRmIndex

Spec == Init /\ [][Next]_vars

\* ---------------------------------------------------------------- readDateData
\* a call of readDateData on a directory with any listing of the model, no
\* handler running
ReadInit ==
  /\ disk = [d \in Dates |-> NoDir]
  /\ index = NoIndex
  /\ committed = NoHistory
  /\ pc = [p \in Queries |-> "idle"]
  /\ dateDirs = [p \in Queries |-> << >>]
  /\ pending = [p \in Queries |-> << >>]
  /\ data = [p \in Queries |-> EmptyData]
  /\ upc = "idle"
  /\ udate = "20260101"
  /\ udata = EmptyData
  /\ cpc = "idle"
  /\ cfolders = << >>
  /\ \E files \in Listings :
       reader = [ReaderIdle EXCEPT !.pc = "db", !.files = files]
  /\ roots = NoRoots
  /\ answer = NoAnswer

\* readdirSync and the loop over the .db files, up to the first
\* await getDataFromExcel
ReadDb ==
  /\ reader.pc = "db"
  /\ reader' = IF \E i \in 1..Len(reader.files) :
                    EndsWithDb(reader.files[i].name)
                      /\ Malformed(reader.files[i].name)
                THEN [reader EXCEPT !.pc = "thrown"]
                ELSE [reader EXCEPT
                        !.pc = "xlsx",
                        !.st = ReadDbFiles(ReaderStart, reader.files),
                        !.rest = SelectSeq(reader.files,
                                           LAMBDA f : EndsWithXlsx(f.name))]
  /\ UNCHANGED <<handlerVars, roots, answer>>

\* one pass of the loop over the .xlsx files
ReadXlsx ==
  /\ reader.pc = "xlsx"
  /\ reader.rest # << >>
  /\ reader' = [reader EXCEPT
                  !.st = ReadXlsxFile(reader.st, Head(reader.rest)),
                  !.rest = Tail(reader.rest)]
  /\ UNCHANGED <<handlerVars, roots, answer>>

\* after the last file: the deduplications, mergeLinkedData, the return
ReadReturn ==
  /\ reader.pc = "xlsx"
  /\ reader.rest = << >>
  /\ reader' = [reader EXCEPT !.pc = "done", !.result = ReadResult(reader.st)]
  /\ UNCHANGED <<handlerVars, roots, answer>>

ReadNext ==
  \/ ReadDb
  \/ ReadXlsx
  \/ ReadReturn

ReadSpec == ReadInit /\ [][ReadNext]_vars

\* ---------------------------------------------------------------- properties
\* the rows a committed indexDateData(date, d) stores for the date
RowsOf(date, d) ==
  [companies |-> [i \in 1..Len(d.companies) |-> CompanyRow(date, d.companies[i])],
   people |-> [i \in 1..Len(d.people) |-> PersonRow(date, d.people[i])],
   mails |-> [i \in 1..Len(d.mails) |-> MailRow(date, d.mails[i])],
   audits |-> [i \in 1..Len(d.audits) |-> AuditRow(date, d.audits[i])],
   evaluations |->
     [i \in 1..Len(d.evaluations) |-> EvaluationRow(date, d.evaluations[i])]]

EmptyRows == RowsOf("20260101", EmptyData)

\* the rows of indexed_dates for one date, and their number
MarkersOf(db, date) ==
  [m \in {x \in BagToSet(db.indexed_dates) : x.date = date} |-> db.indexed_dates[m]]

MarkerCount(db, date) == BagCardinality(MarkersOf(db, date))

\* the file holds no row at all
AllEmpty(db) ==
  /\ db.companies = << >> /\ db.people = << >> /\ db.mails = << >>
  /\ db.audits = << >> /\ db.evaluations = << >>
  /\ db.indexed_dates = EmptyBag

\* what a reader gets for one date: every reader opens the file with
\* ensureIndexDb before its SELECTs
Observed(db, date) == RowsRead(ensureIndexDb(db), date)

\* the file needs no rebuild: a write does not start with dropAllTables
Current(db) == ~isIndexAvailable(db) \/ ~NeedsRebuild(db)

\* the steps of the handlers around indexDateData and readDateData
QIndexes(p) == pc[p] = "index" /\ pc'[p] # "index"
QCommits(p) == pc[p] = "index" /\ pc'[p] \in {"read", "answered"}
QIndexFails(p) == pc[p] = "index" /\ pc'[p] = "failed"
QReadFails(p) == pc[p] = "read" /\ pc'[p] = "failed"
QOpens(p) == pc[p] = "ensure" /\ pc'[p] # "ensure" /\ isIndexAvailable(index)
UIndexes == upc = "index" /\ upc' = "idle"
UCommits ==
  /\ UIndexes
  /\ \E now \in Times : index' = indexDateData(index, udate, udata, now, 0)
UIndexFails ==
  /\ UIndexes
  /\ \E now \in Times, failAt \in FailPoints \ {0} :
       index' = indexDateData(index, udate, udata, now, failAt)
UReadFails == upc = "read" /\ upc' = "idle"

\* the last committed write of the date stored the data d, and the file has
\* not been rebuilt or removed since
LastIndexedWith(date, d) == Current(index) /\ committed[date] = <<d>>

\* ------------------------------------------------------------------ C1
SameRowsOneMarker(date) ==
  /\ RowsRead(index', date) = RowsRead(index, date)
  /\ MarkerCount(index', date) = 1

\* C1: an indexDateData(D, data) that commits right after an indexDateData of
\* the same D with the same data leaves the rows of D in the five content
\* tables as they were (same rows, same number, none twice) and exactly one
\* indexed_dates row for D.
C1_ReindexIsIdempotent ==
  [][/\ \A p \in Queries :
          (QCommits(p) /\ LastIndexedWith(Head(pending[p]), data[p]))
            => SameRowsOneMarker(Head(pending[p]))
     /\ (UCommits /\ LastIndexedWith(udate, udata)) => SameRowsOneMarker(udate)]_vars

\* a query is about to index, with the data DataB, the date another handler
\* has indexed with DataB since the query took its snapshot
C1_Witness ==
  \E p \in Queries :
    /\ pc[p] = "index"
    /\ data[p] = DataB
    /\ LastIndexedWith(Head(pending[p]), DataB)
    /\ RowsRead(index, Head(pending[p])) = RowsOf(Head(pending[p]), DataB)

\* ------------------------------------------------------------------ C2
OldOrNew(date, d) ==
  \/ Observed(index', date) = Observed(index, date)
  \/ Observed(index', date) = RowsOf(date, d)

\* C2: whatever an indexDateData(D, new) does, committing or failing at any
\* statement, a reader that runs after it gets for D either all the rows it
\* would have got before, or all the rows of new, in each of the five tables:
\* never D's rows deleted and not reinserted, or inserted in part.
C2_ReadersSeeOldOrNew ==
  [][/\ \A p \in Queries : QIndexes(p) => OldOrNew(Head(pending[p]), data[p])
     /\ UIndexes => OldOrNew(udate, udata)]_vars

\* the upload is about to replace the rows of an indexed date by those of
\* other data while a query is between its listing and its answer
C2_Witness ==
  /\ upc = "index"
  /\ udata = DataB
  /\ LastIndexedWith(udate, DataA)
  /\ isIndexAvailable(index)
  /\ \E q \in Queries : pc[q] \in {"ensure", "read", "index"}

\* ------------------------------------------------------------------ C3
\* the rows and the marker of the date are what they were
Kept(date) ==
  /\ RowsRead(index', date) = RowsRead(index, date)
  /\ MarkersOf(index', date) = MarkersOf(index, date)

\* the open of the attempt dropped every table
Dropped(date) ==
  /\ isIndexAvailable(index)
  /\ NeedsRebuild(index)
  /\ RowsRead(index', date) = EmptyRows
  /\ MarkerCount(index', date) = 0

\* a query that lists the directories now has the date to index
Retried(date) ==
  disk'[date] # NoDir
    => date \in DirSet(NotIndexed(getAllDateDirs(disk'), getIndexedDates(index')))

C4_UnreadableDateIsSkipped ==
  [][\A p \in Queries :
       (pc[p] = "read" /\ ~Readable(disk[Head(pending[p])]) /\ pc'[p] # "read")
         => /\ pc'[p] # "failed"
            /\ pc'[p] = (IF Tail(pending[p]) = << >> THEN "answered" ELSE "read")]_vars

\* ------------------------------------------------------------------ C5
\* the dates indexed_dates records
Recorded(db) == {m.date : m \in BagToSet(db.indexed_dates)}

\* C5 as stated: when a query answers from the index, every date directory
\* its listing returned is recorded in indexed_dates.
C5_AnswerCoversListing ==
  [][\A p \in Queries :
       (pc[p] \in {"ensure", "index"} /\ pc'[p] = "answered")
         => DirSet(dateDirs[p]) \subseteq Recorded(index')]_vars

\* ------------------------------------------------------------------ C6
\* the stored version is lower than SCHEMA_VERSION, or the file has no
\* _schema_version table
Outdated(db) ==
  /\ isIndexAvailable(db)
  /\ \/ db.schemaTable = "none"
     \/ db.schemaTable = "ok" /\ currentVersion(db) < SCHEMA_VERSION

\* C6: when getIndexedDates opens a file whose stored version is lower than
\* SCHEMA_VERSION, or that has no _schema_version table, the five content
\* tables and indexed_dates are empty afterwards, getIndexedDates returns the
\* empty set, and the query has every listed date to index.
C6_OutdatedStoreOpensEmpty ==
  [][\A p \in Queries :
       (QOpens(p) /\ Outdated(index))
         => /\ AllEmpty(index')
            /\ getIndexedDates(index) = {}
            /\ pc'[p] = "read"
            /\ pending'[p] = dateDirs[p]]_vars

\* a query is about to open an outdated file that records a date
C6_Witness ==
  \E p \in Queries :
    /\ pc[p] = "ensure"
    /\ Outdated(index)
    /\ Recorded(index) # {}
    /\ index.companies # << >>

\* ------------------------------------------------------------------ C7
\* the stored version is not the compiled one
Mismatch(db) ==
  /\ isIndexAvailable(db)
  /\ db.schemaTable # "ok" \/ db.version # SCHEMA_VERSION

\* the stored version is higher than the compiled one
StoredHigher(db) ==
  /\ isIndexAvailable(db)
  /\ db.schemaTable = "ok"
  /\ currentVersion(db) > SCHEMA_VERSION

\* the file after the upload's indexDateData holds nothing but what the
\* call wrote
OnlyTheWrite(date, d) ==
  /\ \A e \in Dates \ {date} :
       RowsRead(index', e) = EmptyRows /\ MarkerCount(index', e) = 0
  /\ RowsRead(index', date) \in {EmptyRows, RowsOf(date, d)}

\* the rows of the file are those it held
RowsKept ==
  /\ \A e \in Dates : RowsRead(index', e) = RowsRead(index, e)
  /\ index'.indexed_dates = index.indexed_dates

\* C7 as stated: an open of a file whose stored version is not SCHEMA_VERSION
\* (lower, higher, or none recorded) leaves no row of the file.
C7_AnyMismatchDrops ==
  [][\A p \in Queries : (QOpens(p) /\ Mismatch(index)) => AllEmpty(index')]_vars

\* C7, amended: an open of a file with no _schema_version table, with one
\* that cannot be read, or with a stored version lower than SCHEMA_VERSION
\* leaves no row of the file; an open of a file with a stored version higher
\* than SCHEMA_VERSION keeps every row.
C7_OnlyOutdatedDrops ==
  [][/\ \A p \in Queries :
          /\ (QOpens(p) /\ NeedsRebuild(index)) => AllEmpty(index')
          /\ (QOpens(p) /\ StoredHigher(index)) => RowsKept
     /\ (UIndexes /\ isIndexAvailable(index) /\ NeedsRebuild(index))
          => OnlyTheWrite(udate, udata)
     /\ (UIndexFails /\ StoredHigher(index)) => RowsKept]_vars

\* a query is about to open a file with rows and a stored version higher
\* than SCHEMA_VERSION
C7_Witness ==
  \E p \in Queries :
    /\ pc[p] = "ensure"
    /\ StoredHigher(index)
    /\ index.companies # << >>
    /\ Recorded(index) # {}

\* ------------------------------------------------------------------ C8
\* the rows and the markers of the other dates are what they were
Frame(date) ==
  \A e \in Dates \ {date} :
    /\ RowsRead(index', e) = RowsRead(index, e)
    /\ MarkersOf(index', e) = MarkersOf(index, e)

\* the same rows for every date and the same markers
SameContents(a, b) ==
  /\ \A e \in Dates : RowsRead(a, e) = RowsRead(b, e)
  /\ a.indexed_dates = b.indexed_dates

\* the two orders of two committed writes
InOrder(db, c1, c2) ==
  indexDateData(indexDateData(db, c1[1], c1[2], 1, 0), c2[1], c2[2], 1, 0)

\* the calls indexDateData(date, data) the handlers are about to make
Calls ==
  {<<Head(pending[p]), data[p]>> : p \in {q \in Queries : pc[q] = "index"}}
  \cup (IF upc = "index" THEN {<<udate, udata>>} ELSE {})

\* C8 as stated: an indexDateData(D, data) leaves the rows and the markers of
\* every other date as they were, in every reachable state.
C8_OtherDatesUntouched ==
  [][/\ \A p \in Queries : QIndexes(p) => Frame(Head(pending[p]))
     /\ UIndexes => Frame(udate)]_vars

\* C8, amended: an indexDateData(D, data) on a file that needs no rebuild
\* leaves the rows and the markers of every other date as they were (on a
\* file to rebuild its open drops them); and two handlers about to index two
\* different dates end with the same rows and markers in either order.
C8_OtherDatesUntouchedWhenCurrent ==
  /\ [][/\ \A p \in Queries :
             (QIndexes(p) /\ Current(index)) => Frame(Head(pending[p]))
        /\ (UIndexes /\ Current(index)) => Frame(udate)]_vars
  /\ [](\A c1 \in Calls, c2 \in Calls :
          c1[1] # c2[1]
            => SameContents(InOrder(index, c1, c2), InOrder(index, c2, c1)))

\* a query and the upload are about to index two different dates, the file
\* holding rows of both
C8_Witness ==
  \E p \in Queries :
    /\ pc[p] = "index"
    /\ upc = "index"
    /\ Head(pending[p]) # udate
    /\ Current(index)
    /\ RowsRead(index, udate) # EmptyRows
    /\ RowsRead(index, Head(pending[p])) # EmptyRows

\* ------------------------------------------------------------------ C9
\* C9: in every state the rows the file holds for a date are exactly those of
\* the last committed indexDateData of the date (none when there is none, or
\* when the file was rebuilt or removed since), whatever the interleaving of
\* the handlers that index it, and the date has one marker exactly when it
\* has such a write: two queries that index the same date with two data sets
\* leave the rows of the one that committed last, never a mix and no row
\* twice.
C9_LastCommittedWins ==
  \A date \in Dates :
    IF committed[date] = << >>
    THEN RowsRead(index, date) = EmptyRows /\ MarkerCount(index, date) = 0
    ELSE /\ RowsRead(index, date) = RowsOf(date, committed[date][1])
         /\ MarkerCount(index, date) = 1

\* the two queries are about to index the same date, one with DataA and the
\* other with DataB
C9_Witness ==
  /\ pc["q1"] = "index"
  /\ pc["q2"] = "index"
  /\ Head(pending["q1"]) = Head(pending["q2"])
  /\ data["q1"] = DataA
  /\ data["q2"] = DataB

\* ------------------------------------------------------------------ C10
SameCounts(date, d) ==
  /\ Len(RowsRead(index', date).companies) = Len(d.companies)
  /\ Len(RowsRead(index', date).people) = Len(d.people)
  /\ Len(RowsRead(index', date).mails) = Len(d.mails)
  /\ Len(RowsRead(index', date).audits) = Len(d.audits)
  /\ Len(RowsRead(index', date).evaluations) = Len(d.evaluations)

\* C10: right after an indexDateData(D, data) commits, the file holds for D
\* as many companies, people, mails, audits and evaluations as the lists of
\* data have elements.
C10_RowCountsAreListLengths ==
  [][/\ \A p \in Queries : QCommits(p) => SameCounts(Head(pending[p]), data[p])
     /\ UCommits => SameCounts(udate, udata)]_vars

\* the upload is about to index, with the lists of DataB (a company twice, a
\* company without mapp), a date the file holds other rows of
C10_Witness ==
  /\ upc = "index"
  /\ udata = DataB
  /\ LastIndexedWith(udate, DataA)
  /\ Len(RowsRead(index, udate).companies) # Len(udata.companies)

\* ------------------------------------------------------------------ C11
RECURSIVE IndexEach(_, _, _)
\* the for loop of ensureIndexForDates run without another handler in
\* between: readDateData and indexDateData of each date, stopped by the first
\* readDateData that throws
IndexEach(db, dates, dk) ==
  IF dates = << >> THEN db
  ELSE IF ~Readable(dk[Head(dates)]) THEN db
  ELSE IndexEach(indexDateData(db, Head(dates), readDateData(dk[Head(dates)]), 1, 0),
                 Tail(dates), dk)

\* ensureIndexForDates(dateDirs): getIndexedDates, then the loop over the
\* dates it does not hold
ensureIndexForDates(db, dirs, dk) ==
  IndexEach(AfterGetIndexedDates(db), NotIndexed(dirs, getIndexedDates(db)), dk)

\* the file one query builds from the directories when the index file has
\* been deleted
Rebuilt == ensureIndexForDates(NoIndex, getAllDateDirs(disk), disk)

\* no handler is running and a query now would find nothing to index
Settled ==
  /\ \A p \in Queries : pc[p] = "idle"
  /\ upc = "idle"
  /\ cpc = "idle"
  /\ isIndexAvailable(index)
  /\ NotIndexed(getAllDateDirs(disk), getIndexedDates(index)) = << >>

\* C11 as stated: with the directories as they are, deleting the index file
\* and running one query gives a file whose rows, for every date, and whose
\* set of indexed dates are those of the file before the deletion.
C11_IndexIsDisposable ==
  Settled
    => /\ \A d \in Dates : Observed(Rebuilt, d) = Observed(index, d)
       /\ getIndexedDates(Rebuilt) = getIndexedDates(index)

\* ------------------------------------------------------------------ C12
\* the clear-data handler answers (rm of the index file is its last step)
CAnswers == cpc = "rm" /\ cpc' = "idle"

RECURSIVE MailsOf(_)
\* the mails of the .xlsx files of a listing, in file-iteration order
MailsOf(files) ==
  IF files = << >> THEN << >>
  ELSE (IF EndsWithXlsx(Head(files).name) THEN Head(files).mails ELSE << >>)
         \o MailsOf(Tail(files))

RECURSIVE AuditsOf(_)
\* the audits of the .xlsx files of a listing, in file-iteration order
AuditsOf(files) ==
  IF files = << >> THEN << >>
  ELSE (IF EndsWithXlsx(Head(files).name) THEN Head(files).audits ELSE << >>)
         \o AuditsOf(Tail(files))

\* the natural keys of a mail and of an audit
MailNaturalKey(m) == <<m.mapp, m.email, m.subject>>
AuditNaturalKey(a) == <<a.mapp, a.hemsida, a.audit_datum>>

\* readDateData has returned
ReadDone == reader.pc = "done"

\* no two mails of the list have the same natural key, and each is the first
\* of the mails read that has its key
FirstSeenMails(out, read) ==
  /\ \A i, j \in 1..Len(out) :
       MailNaturalKey(out[i]) = MailNaturalKey(out[j]) => i = j
  /\ \A i \in 1..Len(out) :
       \E k \in 1..Len(read) :
         /\ read[k] = out[i]
         /\ \A l \in 1..(k - 1) :
              MailNaturalKey(read[l]) # MailNaturalKey(out[i])

\* the same for the audits
FirstSeenAudits(out, read) ==
  /\ \A i, j \in 1..Len(out) :
       AuditNaturalKey(out[i]) = AuditNaturalKey(out[j]) => i = j
  /\ \A i \in 1..Len(out) :
       \E k \in 1..Len(read) :
         /\ read[k] = out[i]
         /\ \A l \in 1..(k - 1) :
              AuditNaturalKey(read[l]) # AuditNaturalKey(out[i])

\* C13: in the result of readDateData no two mails have the same (folder id,
\* email, subject) and no two audits the same (folder id, url, audit date):
\* the records read with one key are collapsed, and the record kept for a key
\* is the first one read with it, in file-iteration order.
C13_DuplicatesCollapseToFirst ==
  ReadDone
    => /\ FirstSeenMails(reader.result.data.mails, MailsOf(reader.files))
       /\ FirstSeenAudits(reader.result.data.audits, AuditsOf(reader.files))

\* readDateData has returned on a directory whose files hold two different
\* mails with one key and two different audits with one key
C13_Witness ==
  /\ ReadDone
  /\ \E i, j \in 1..Len(MailsOf(reader.files)) :
       /\ i < j
       /\ MailNaturalKey(MailsOf(reader.files)[i])
            = MailNaturalKey(MailsOf(reader.files)[j])
       /\ MailsOf(reader.files)[i] # MailsOf(reader.files)[j]
       /\ MailsOf(reader.files)[i] \in DirSet(reader.result.data.mails)
  /\ \E i, j \in 1..Len(AuditsOf(reader.files)) :
       /\ i < j
       /\ AuditNaturalKey(AuditsOf(reader.files)[i])
            = AuditNaturalKey(AuditsOf(reader.files)[j])
       /\ AuditsOf(reader.files)[i] # AuditsOf(reader.files)[j]

\* ------------------------------------------------------------------ C14
\* the files of the listing whose name holds "final"
FinalFiles(files) ==
  {i \in 1..Len(files) :
     EndsWithXlsx(files[i].name) /\ IncludesFinal(files[i].name)}

\* C14 as stated: when the directory holds one spreadsheet named "final" with
\* company rows and a spreadsheet named "kungorelser" with company rows, the
\* companies of the result are the rows of the final file, in every listing
\* order.
C14_FinalCompaniesWin ==
  ReadDone
    => \A i \in FinalFiles(reader.files), j \in 1..Len(reader.files) :
         (/\ FinalFiles(reader.files) = {i}
          /\ reader.files[i].companies # << >>
          /\ IncludesKungorelser(reader.files[j].name)
          /\ reader.files[j].companies # << >>)
           => reader.result.data.companies = reader.files[i].companies

\* ------------------------------------------------------------------ C15
\* the final files of the listing that have person rows
FinalWithPeople(files) ==
  {i \in FinalFiles(files) : files[i].people # << >>}

\* the greatest element of a non-empty set of positions
Last(positions) == CHOOSE i \in positions : \A j \in positions : j <= i

\* C15 as stated: the people of the result are the person rows of any
\* spreadsheet named "final" that has person rows, whatever other files the
\* directory holds and wherever they are listed.
C15_FinalPeopleWin ==
  ReadDone
    => \A i \in FinalWithPeople(reader.files) :
         reader.result.data.people = reader.files[i].people

\* C15, amended: when spreadsheets named "final" have person rows, the people
\* of the result are the person rows of the one listed last among them,
\* whatever .db files and other spreadsheets the directory holds and wherever
\* they are listed.
C15_LastFinalPeopleWin ==
  (ReadDone /\ FinalWithPeople(reader.files) # {})
    => reader.result.data.people
         = reader.files[Last(FinalWithPeople(reader.files))].people

\* readDateData has returned on a directory with a .db file that has people,
\* a final file with people and, listed after it, another spreadsheet with
\* people
C15_Witness ==
  /\ ReadDone
  /\ \E i, j, k \in 1..Len(reader.files) :
       /\ EndsWithDb(reader.files[i].name)
       /\ reader.files[i].people # << >>
       /\ j \in FinalWithPeople(reader.files)
       /\ j < k
       /\ EndsWithXlsx(reader.files[k].name)
       /\ ~IncludesFinal(reader.files[k].name)
       /\ reader.files[k].people # << >>
       /\ reader.result.data.people = reader.files[j].people

\* ------------------------------------------------------------------ C16
\* the files in iteration order: the .db files, then the .xlsx files, each
\* group in listing order
IterationOrder(files) ==
  SelectSeq(files, LAMBDA f : EndsWithDb(f.name))
    \o SelectSeq(files, LAMBDA f : EndsWithXlsx(f.name))

\* the companies of the first file of the sequence that has some
FirstCompanies(files) ==
  IF \A i \in 1..Len(files) : files[i].companies = << >> THEN << >>
  ELSE files[CHOOSE i \in 1..Len(files) :
               /\ files[i].companies # << >>
               /\ \A j \in 1..(i - 1) : files[j].companies = << >>].companies

RECURSIVE AllCompanies(_)
\* the companies of every file of the sequence, one list after the other
AllCompanies(files) ==
  IF files = << >> THEN << >>
  ELSE Head(files).companies \o AllCompanies(Tail(files))

\* the kungorelser spreadsheets of the listing that have company rows
KungorelserWithCompanies(files) ==
  {i \in 1..Len(files) :
     /\ EndsWithXlsx(files[i].name)
     /\ IncludesKungorelser(files[i].name)
     /\ files[i].companies # << >>}

MailNaturalKeys(mails) == {MailNaturalKey(mails[i]) : i \in 1..Len(mails)}
AuditNaturalKeys(audits) == {AuditNaturalKey(audits[i]) : i \in 1..Len(audits)}

\* C17 as stated: the natural keys of the mails of the result are those of
\* the mails of all the spreadsheets of the directory, and the natural keys
\* of its audits those of the audits of all the spreadsheets: no row is
\* dropped but a row whose natural key an earlier row has.
C17_EveryKeyIsKept ==
  ReadDone
    => /\ MailNaturalKeys(reader.result.data.mails)
            = MailNaturalKeys(MailsOf(reader.files))
       /\ AuditNaturalKeys(reader.result.data.audits)
            = AuditNaturalKeys(AuditsOf(reader.files))

\* ------------------------------------------------------------------ C18
\* the label of the highest ranked file of the listing, in the order .db file,
\* final spreadsheet, mail_ready spreadsheet, other spreadsheet, none
HighestRanked(files) ==
  IF \E i \in 1..Len(files) : EndsWithDb(files[i].name) THEN "sqlite"
  ELSE IF FinalFiles(files) # {} THEN "excel-final"
  ELSE IF \E i \in 1..Len(files) :
            EndsWithXlsx(files[i].name) /\ IncludesMailReady(files[i].name)
       THEN "excel-mail"
  ELSE IF \E i \in 1..Len(files) : EndsWithXlsx(files[i].name) THEN "excel"
  ELSE "unknown"

\* C18 as stated: the label readDateData returns is "sqlite" whenever the
\* directory holds a .db file, otherwise "excel-final" when it holds a final
\* spreadsheet, otherwise "excel-mail" when it holds a mail_ready
\* spreadsheet, otherwise "excel" when it holds a spreadsheet, otherwise
\* "unknown".
C18_LabelFollowsPriority ==
  ReadDone => reader.result.source = HighestRanked(reader.files)

\* ------------------------------------------------------------------ C19
\* the natural key of a company: its folder id when it has one, else its
\* organisation number
CompanyNaturalKey(c) ==
  IF OrEmpty(c.mapp) # "" THEN <<"mapp", c.mapp>> ELSE <<"orgnr", c.orgnr>>

\* the natural key of a person and of an evaluation
PersonNaturalKey(person) == <<person.personnummer, person.kungorelse_id>>
EvaluationNaturalKey(e) == e.mapp

\* no two records of the lists of d have the same natural key (a person
\* without personal id is not compared)
UniqueKeys(d) ==
  /\ \A i, j \in 1..Len(d.companies) :
       CompanyNaturalKey(d.companies[i]) = CompanyNaturalKey(d.companies[j])
         => i = j
  /\ \A i, j \in 1..Len(d.people) :
       (/\ OrEmpty(d.people[i].personnummer) # ""
        /\ PersonNaturalKey(d.people[i]) = PersonNaturalKey(d.people[j]))
         => i = j
  /\ \A i, j \in 1..Len(d.mails) :
       MailNaturalKey(d.mails[i]) = MailNaturalKey(d.mails[j]) => i = j
  /\ \A i, j \in 1..Len(d.audits) :
       AuditNaturalKey(d.audits[i]) = AuditNaturalKey(d.audits[j]) => i = j
  /\ \A i, j \in 1..Len(d.evaluations) :
       EvaluationNaturalKey(d.evaluations[i])
         = EvaluationNaturalKey(d.evaluations[j]) => i = j

mailCompanies(db) ==
  {db.mails[i].mapp : i \in {j \in 1..Len(db.mails) : db.mails[j].mapp # ""}}

\* SELECT DISTINCT mapp FROM audits WHERE mapp <> ''
auditCompanies(db) ==
  {db.audits[i].mapp : i \in {j \in 1..Len(db.audits) : db.audits[j].mapp # ""}}

\* SELECT DISTINCT mapp FROM mails WHERE site_preview_url <> '' UNION SELECT
\* DISTINCT mapp FROM evaluations WHERE preview_url <> ''
previewCompanies(db) ==
  {db.mails[i].mapp :
     i \in {j \in 1..Len(db.mails) : db.mails[j].site_preview_url # ""}}
  \cup {db.evaluations[i].mapp :
          i \in {j \in 1..Len(db.evaluations) : db.evaluations[j].preview_url # ""}}

\* lower(ska_fa_sajt) = 'ja' and ska_fa_sajt?.toLowerCase() === "ja"
IsJa(v) == ToLowerCase(v) = "ja"

\* SELECT DISTINCT mapp FROM evaluations WHERE lower(ska_fa_sajt) = 'ja'
worthyCompanies(db) ==
  {db.evaluations[i].mapp :
     i \in {j \in 1..Len(db.evaluations) : IsJa(db.evaluations[j].ska_fa_sajt)}}

\* SELECT DISTINCT mapp FROM mails WHERE email <> ''
emailCompanies(db) ==
  {db.mails[i].mapp : i \in {j \in 1..Len(db.mails) : db.mails[j].email # ""}}

\* SELECT DISTINCT mapp FROM companies WHERE domain_verified <> '' OR
\* domain_guess <> ''
domainCompanies(db) ==
  {db.companies[i].mapp :
     i \in {j \in 1..Len(db.companies) :
              \/ db.companies[j].domain_verified # ""
              \/ db.companies[j].domain_guess # ""}}

\* a row whose hasEmail looks at the company's own fields only
enrichOwnEmail(db, row) ==
  [company |-> row,
   sourceDate |-> row.date,
   hasMail |-> row.mapp \in mailCompanies(db),
   hasAudit |-> row.mapp \in auditCompanies(db),
   hasPreview |-> row.mapp \in previewCompanies(db) \/ row.preview_url # "",
   worthySite |-> row.mapp \in worthyCompanies(db) \/ IsJa(row.ska_fa_sajt),
   hasEmail |-> row.epost # "" \/ row.emails_found # "",
   hasDomain |-> \/ row.mapp \in domainCompanies(db)
                 \/ row.domain_verified # ""
                 \/ row.domain_guess # ""]

\* one row of companies as querySearchFromIndex returns it: the row, its date
\* and the six flags
enrich(db, row) ==
  [company |-> row,
   sourceDate |-> row.date,
   hasMail |-> row.mapp \in mailCompanies(db),
   hasAudit |-> row.mapp \in auditCompanies(db),
   hasPreview |-> row.mapp \in previewCompanies(db) \/ row.preview_url # "",
   worthySite |-> row.mapp \in worthyCompanies(db) \/ IsJa(row.ska_fa_sajt),
   hasEmail |-> \/ row.mapp \in emailCompanies(db)
                \/ row.epost # ""
                \/ row.emails_found # "",
   hasDomain |-> \/ row.mapp \in domainCompanies(db)
                 \/ row.domain_verified # ""
                 \/ row.domain_guess # ""]

\* the companies of the answer of querySearchFromIndex to a query without
\* filter and with a limit above the number of rows: every row of companies
\* with its date and its flags (the order of the rows is left out)
enrichedCompanies(db) ==
  [i \in 1..Len(db.companies) |-> enrich(db, db.companies[i])]

\* a number of JavaScript: NaN or an integer
Num(n) == [nan |-> FALSE, n |-> n]
NaN == [nan |-> TRUE, n |-> 0]

\* parseInt on the values of the limit parameter
parseInt(s) ==
  CASE s = "0" -> Num(0)
    [] s = "1" -> Num(1)
    [] s = "2" -> Num(2)
    [] s = "-1" -> Num(-1)
    [] s = "200" -> Num(200)
    [] OTHER -> NaN

\* parseBooleanParam
parseBooleanParam(value) ==
  IF value = Null \/ value = "" THEN FALSE
  ELSE ToLowerCase(value) \in {"1", "true", "yes"}

\* the part b occurs in the word a (the words and queries of the model)
Includes(a, b) ==
  \/ b = ""
  \/ a = b
  \/ b = "acme" /\ a \in {"acme ab", "info@acme.se"}
  \/ b = "beta" /\ a \in {"beta ab", "info@beta.se"}

\* searchText.includes(query): the query occurs in the text as it is written
LiteralSubstring(text, query) ==
  \E i \in 1..Len(text) : Includes(text[i], query)

\* search_text LIKE '%' || query || '%' (no ESCAPE clause): the _ of a query
\* stands for any one character of the text, every other query of the model
\* for itself
Like(text, query) ==
  IF query = "_" THEN \E i \in 1..Len(text) : text[i] # ""
  ELSE \E i \in 1..Len(text) : Includes(text[i], query)

\* the six boolean filters
Flags ==
  {"hasMail", "hasAudit", "hasPreview", "worthySite", "hasEmail", "hasDomain"}

\* the WHERE clause querySearchFromIndex builds from its options
Where(db, row, o) ==
  /\ o.segment # "" => row.segment = o.segment
  /\ o.lan # "" => row.lan = o.lan
  /\ o.query # "" => Like(row.search_text, o.query)
  /\ o.hasMail => row.mapp \in mailCompanies(db)
  /\ o.hasAudit => row.mapp \in auditCompanies(db)
  /\ o.hasPreview
       => \/ row.preview_url # ""
          \/ row.mapp \in previewCompanies(db)
  /\ o.worthySite
       => \/ IsJa(row.ska_fa_sajt)
          \/ row.mapp \in worthyCompanies(db)
  /\ o.hasEmail
       => \/ row.epost # ""
          \/ row.emails_found # ""
          \/ row.mapp \in emailCompanies(db)
  /\ o.hasDomain => row.domain_verified # "" \/ row.domain_guess # ""

\* ORDER BY date DESC
RECURSIVE OrderByDateDesc(_, _)
OrderByDateDesc(rows, dates) ==
  IF dates = << >> THEN << >>
  ELSE SelectSeq(rows, LAMBDA r : r.date = Head(dates))
       \o OrderByDateDesc(rows, Tail(dates))

\* LIMIT n of SQLite: a negative n is no limit
Limit(rows, n) ==
  IF n < 0 THEN rows
  ELSE IF n < Len(rows) THEN SubSeq(rows, 1, n) ELSE rows

\* a search that lists people whatever the query is
PeopleAlways(db, o) == SelectSeq(db.people, LAMBDA r : Like(r.search_text, o.query))

\* the rows of people querySearchFromIndex matches: none without a query
MatchedPeople(db, o) ==
  IF o.query # ""
  THEN SelectSeq(db.people, LAMBDA r : Like(r.search_text, o.query))
  ELSE << >>

\* querySearchFromIndex: binding NaN (NULL) to LIMIT makes the statement
\* throw, which GET answers with status 500
querySearchFromIndex(db0, o) ==
  LET db == ensureIndexDb(db0)
      matched == SelectSeq(db.companies, LAMBDA r : Where(db, r, o))
      listed == Limit(OrderByDateDesc(matched, DatesDescending), o.limit.n)
      people == MatchedPeople(db, o)
  IN IF o.limit.nan THEN [kind |-> "search", status |-> 500, options |-> o]
     ELSE [kind |-> "search", status |-> 200, options |-> o,
           companies |-> [i \in 1..Len(listed) |-> enrich(db, listed[i])],
           people |-> Limit(people, o.limit.n),
           totalCompanies |-> Len(matched),
           totalPeople |-> Len(people)]

\* a value JavaScript takes for true: neither null nor the empty string
Truthy(v) == v # Null /\ v # ""

\* the flags the loop of GET gives a company of the data of one date, from
\* the Sets it builds of that data
dateFlags(d, company) ==
  LET mailSet == {d.mails[i].mapp :
                    i \in {j \in 1..Len(d.mails) : Truthy(d.mails[j].mapp)}}
      auditSet == {d.audits[i].mapp :
                     i \in {j \in 1..Len(d.audits) : Truthy(d.audits[j].mapp)}}
      previewSet ==
        {d.companies[i].mapp :
           i \in {j \in 1..Len(d.companies) :
                    Truthy(d.companies[j].preview_url) /\ Truthy(d.companies[j].mapp)}}
        \cup {d.mails[i].mapp :
                i \in {j \in 1..Len(d.mails) :
                         Truthy(d.mails[j].mapp) /\ Truthy(d.mails[j].site_preview_url)}}
        \cup {d.evaluations[i].mapp :
                i \in {j \in 1..Len(d.evaluations) :
                         /\ Truthy(d.evaluations[j].mapp)
                         /\ Truthy(d.evaluations[j].preview_url)}}
      worthySet ==
        {d.companies[i].mapp :
           i \in {j \in 1..Len(d.companies) :
                    IsJa(d.companies[j].ska_fa_sajt) /\ Truthy(d.companies[j].mapp)}}
        \cup {d.evaluations[i].mapp :
                i \in {j \in 1..Len(d.evaluations) :
                         /\ Truthy(d.evaluations[j].mapp)
                         /\ IsJa(d.evaluations[j].ska_fa_sajt)}}
      emailSet ==
        {d.companies[i].mapp :
           i \in {j \in 1..Len(d.companies) :
                    /\ Truthy(d.companies[j].epost) \/ Truthy(d.companies[j].emails_found)
                    /\ Truthy(d.companies[j].mapp)}}
        \cup {d.mails[i].mapp :
                i \in {j \in 1..Len(d.mails) :
                         Truthy(d.mails[j].mapp) /\ Truthy(d.mails[j].email)}}
      domainSet ==
        {d.companies[i].mapp :
           i \in {j \in 1..Len(d.companies) :
                    /\ \/ Truthy(d.companies[j].domain_verified)
                       \/ Truthy(d.companies[j].domain_guess)
                    /\ Truthy(d.companies[j].mapp)}}
  IN [hasMail |-> company.mapp \in mailSet,
      hasAudit |-> company.mapp \in auditSet,
      hasPreview |-> company.mapp \in previewSet \/ Truthy(company.preview_url),
      worthySite |-> company.mapp \in worthySet \/ IsJa(company.ska_fa_sajt),
      hasEmail |-> \/ company.mapp \in emailSet
                   \/ Truthy(company.epost)
                   \/ Truthy(company.emails_found),
      hasDomain |-> \/ company.mapp \in domainSet
                    \/ Truthy(company.domain_verified)
                    \/ Truthy(company.domain_guess)]

\* matchesCompanyFilters
matchesCompanyFilters(company, flags, o) ==
  /\ o.segment # "" => company.segment = o.segment
  /\ o.lan # "" => company.lan = o.lan
  /\ o.hasMail => flags.hasMail
  /\ o.hasAudit => flags.hasAudit
  /\ o.hasPreview => flags.hasPreview
  /\ o.worthySite => flags.worthySite
  /\ o.hasEmail => flags.hasEmail
  /\ o.hasDomain => flags.hasDomain
  /\ o.query # ""
       => LiteralSubstring(
            buildSearchText(<<company.foretagsnamn, company.orgnr,
                              company.mapp, company.sate, company.epost,
                              company.verksamhet, company.segment>>),
            o.query)

\* matchesPersonFilters
matchesPersonFilters(person, query) ==
  /\ query # ""
  /\ LiteralSubstring(buildSearchText(<<person.fornamn, person.efternamn,
                                        person.foretagsnamn, person.orgnr,
                                        person.ort, person.mapp>>),
                      query)

\* `${person.personnummer}-${person.kungorelse_id}`
SeenPeopleKey(person) ==
  TemplateText(person.personnummer) \o "-" \o TemplateText(person.kungorelse_id)

\* the loop over data.companies of one date: a company without key or with a
\* key already taken is skipped, one that matches is pushed with its flags
RECURSIVE ScanCompanies(_, _, _, _, _)
ScanCompanies(companies, d, date, o, acc) ==
  IF companies = << >> THEN acc
  ELSE LET company == Head(companies)
           key == IF Truthy(company.mapp) THEN company.mapp ELSE company.orgnr
           flags == dateFlags(d, company)
       IN IF ~Truthy(key) \/ key \in acc.seenCompanies
          THEN ScanCompanies(Tail(companies), d, date, o, acc)
          ELSE IF matchesCompanyFilters(company, flags, o)
          THEN ScanCompanies(Tail(companies), d, date, o,
                 [acc EXCEPT !.seenCompanies = @ \cup {key},
                             !.allCompanies =
                               Append(@, [company |-> company,
                                          sourceDate |-> date,
                                          hasMail |-> flags.hasMail,
                                          hasAudit |-> flags.hasAudit,
                                          hasPreview |-> flags.hasPreview,
                                          worthySite |-> flags.worthySite,
                                          hasEmail |-> flags.hasEmail,
                                          hasDomain |-> flags.hasDomain])])
          ELSE ScanCompanies(Tail(companies), d, date, o, acc)

\* the loop over data.people of one date
RECURSIVE ScanPeople(_, _, _, _)
ScanPeople(people, date, o, acc) ==
  IF people = << >> THEN acc
  ELSE LET person == Head(people)
           key == SeenPeopleKey(person)
       IN IF key \in acc.seenPeople
          THEN ScanPeople(Tail(people), date, o, acc)
          ELSE IF matchesPersonFilters(person, o.query)
          THEN ScanPeople(Tail(people), date, o,
                 [acc EXCEPT !.seenPeople = @ \cup {key},
                             !.allPeople =
                               Append(@, [person |-> person, sourceDate |-> date])])
          ELSE ScanPeople(Tail(people), date, o, acc)

\* a >= b of JavaScript numbers: false when one of them is NaN
AtLeast(a, limit) == ~limit.nan /\ a >= limit.n

\* the loop of GET over the date directories, newest first: a directory whose
\* read throws is skipped, and the loop stops when both lists hold limit rows
RECURSIVE ScanDates(_, _, _, _)
ScanDates(dates, dk, o, acc) ==
  IF dates = << >> THEN acc
  ELSE IF ~Readable(dk[Head(dates)]) THEN ScanDates(Tail(dates), dk, o, acc)
  ELSE LET d == readDateData(dk[Head(dates)])
           withCompanies == ScanCompanies(d.companies, d, Head(dates), o, acc)
           withPeople == ScanPeople(d.people, Head(dates), o, withCompanies)
       IN IF /\ AtLeast(Len(withPeople.allCompanies), o.limit)
             /\ AtLeast(Len(withPeople.allPeople), o.limit)
          THEN withPeople
          ELSE ScanDates(Tail(dates), dk, o, withPeople)

\* Array.prototype.slice(0, limit): NaN counts as 0, a negative limit drops
\* that many rows from the end
Slice(rows, limit) ==
  LET end == IF limit.nan THEN 0
             ELSE IF limit.n < 0 THEN Len(rows) + limit.n
             ELSE limit.n
  IN IF end <= 0 THEN << >>
     ELSE IF end < Len(rows) THEN SubSeq(rows, 1, end) ELSE rows

\* the answer of GET without the index, from the directories themselves
searchWithoutIndex(dates, dk, o) ==
  LET acc == ScanDates(dates, dk, o,
               [allCompanies |-> << >>, allPeople |-> << >>,
                seenCompanies |-> {}, seenPeople |-> {}])
  IN [kind |-> "search", status |-> 200, options |-> o,
      companies |-> Slice(acc.allCompanies, o.limit),
      people |-> Slice(acc.allPeople, o.limit),
      totalCompanies |-> Len(acc.allCompanies),
      totalPeople |-> Len(acc.allPeople)]

\* the parameters of the requests of the model
QParams == {Null, "acme", "Anna", "beta", "_"}
SegmentParams == {Null, "Bygg"}
LimitParams == {Null, "0", "1", "-1", "abc"}

\* the sets of boolean filters a request turns on: none, one, all
FilterSets == {{}} \cup {{f} : f \in Flags} \cup {Flags}

\* the options GET reads from searchParams; on holds the flags whose
\* parameter is "true"
SearchOptions(q, segment, on, limit) ==
  [query |-> IF q = Null THEN "" ELSE ToLowerCase(q),
   segment |-> OrEmpty(segment),
   lan |-> "",
   hasMail |-> parseBooleanParam(IF "hasMail" \in on THEN "true" ELSE Null),
   hasAudit |-> parseBooleanParam(IF "hasAudit" \in on THEN "true" ELSE Null),
   hasPreview |-> parseBooleanParam(IF "hasPreview" \in on THEN "true" ELSE Null),
   worthySite |-> parseBooleanParam(IF "worthySite" \in on THEN "true" ELSE Null),
   hasEmail |-> parseBooleanParam(IF "hasEmail" \in on THEN "true" ELSE Null),
   hasDomain |-> parseBooleanParam(IF "hasDomain" \in on THEN "true" ELSE Null),
   limit |-> parseInt(IF limit = Null THEN "200" ELSE limit)]

\* ---------------------------------------------------------------- totals
\* the value SQL takes for NULL
SqlNull == "<NULL>"

\* COALESCE(NULLIF(mapp,''), NULLIF(orgnr,''))
companyKey(row) ==
  IF row.mapp # "" THEN row.mapp
  ELSE IF row.orgnr # "" THEN row.orgnr
  ELSE SqlNull

\* a COUNT(*) in the place of COUNT(DISTINCT companyKey): every row counts
CountEveryRow(db, positions) == positions

\* the keys of the rows of companies at the positions given: COUNT(DISTINCT
\* companyKey) leaves NULL out
DistinctKeys(db, positions) ==
  {companyKey(db.companies[i]) : i \in positions} \ {SqlNull}

\* the values of personnummer || '-' || kungorelse_id over the rows of people
PeopleKeys(db) ==
  {db.people[i].personnummer \o "-" \o db.people[i].kungorelse_id :
     i \in 1..Len(db.people)}

\* SELECT <field> as key, COUNT(DISTINCT companyKey) FROM companies GROUP BY
\* <field>, read into an object under row.key || other
GroupCounts(db, field, other) ==
  LET keyOf(v) == IF v = "" THEN other ELSE v
      keys == {keyOf(db.companies[i][field]) : i \in 1..Len(db.companies)}
  IN [k \in keys |->
        Cardinality(DistinctKeys(db,
          {i \in 1..Len(db.companies) : keyOf(db.companies[i][field]) = k}))]

\* queryTotalsFromIndex(totalDates)
queryTotalsFromIndex(db0, totalDates) ==
  LET db == ensureIndexDb(db0)
      rows == 1..Len(db.companies)
  IN [kind |-> "totals", status |-> 200,
      totalCompanies |-> Cardinality(DistinctKeys(db, rows)),
      totalPeople |-> Cardinality(PeopleKeys(db)),
      totalMails |-> Len(db.mails),
      totalAudits |-> Len(db.audits),
      companiesWithDomain |->
        Cardinality(DistinctKeys(db,
          {i \in rows : \/ db.companies[i].domain_verified # ""
                        \/ db.companies[i].domain_guess # ""})),
      companiesWithEmail |->
        Cardinality(DistinctKeys(db,
          {i \in rows : \/ db.companies[i].epost # ""
                        \/ db.companies[i].emails_found # ""})),
      companiesWithPhone |->
        Cardinality(DistinctKeys(db,
          {i \in rows : db.companies[i].phones_found # ""})),
      companiesWithMail |-> Cardinality(mailCompanies(db)),
      companiesWithAudit |-> Cardinality(auditCompanies(db)),
      companiesWithPreview |->
        Cardinality((DistinctKeys(db, {i \in rows : db.companies[i].preview_url # ""})
                     \cup previewCompanies(db)) \ {""}),
      companiesWorthySite |->
        Cardinality(DistinctKeys(db,
          {i \in rows : IsJa(db.companies[i].ska_fa_sajt)})),
      totalDates |-> totalDates,
      segments |-> GroupCounts(db, "segment", "Okant"),
      lans |-> GroupCounts(db, "lan", "Okant"),
      domainStatuses |-> GroupCounts(db, "domain_status", "unknown")]

\* the answer of GET /api/data/totals without the index: its loop runs over
\* no directory and the totals keep their initial values
totalsWithoutIndex ==
  [kind |-> "totals", status |-> 200,
   totalCompanies |-> 0, totalPeople |-> 0, totalMails |-> 0,
   totalAudits |-> 0, companiesWithDomain |-> 0, companiesWithEmail |-> 0,
   companiesWithPhone |-> 0, companiesWithMail |-> 0, companiesWithAudit |-> 0,
   companiesWithPreview |-> 0, companiesWorthySite |-> 0, totalDates |-> 0,
   segments |-> << >>, lans |-> << >>, domainStatuses |-> << >>]

\* ---------------------------------------------------------------- requests
\* the date directories a deployment holds when the requests under study
\* arrive; the index file is absent and the first request builds it
QueryInit ==
  /\ disk \in [Dates -> {NoDir, "A", "B", "C", "D", "E"}]
  /\ index = NoIndex
  /\ committed = NoHistory
  /\ pc = [p \in Queries |-> "idle"]
  /\ dateDirs = [p \in Queries |-> << >>]
  /\ pending = [p \in Queries |-> << >>]
  /\ data = [p \in Queries |-> EmptyData]
  /\ upc = "idle"
  /\ udate = "20260101"
  /\ udata = EmptyData
  /\ cpc = "idle"
  /\ cfolders = << >>
  /\ reader = ReaderIdle
  /\ roots = NoRoots
  /\ answer = NoAnswer

\* what a request leaves alone
requestVars ==
  <<disk, committed, pc, dateDirs, pending, data, upc, udate, udata, cpc,
    cfolders, reader, roots>>

\* GET /api/search, from getAllDateDirPaths to its response
Search ==
  \E q \in QParams, segment \in SegmentParams, on \in FilterSets,
     limit \in LimitParams :
    LET o == SearchOptions(q, segment, on, limit)
        dirs == getAllDateDirs(disk)
        db == ensureIndexForDates(index, dirs, disk)
    IN /\ answer = NoAnswer
       /\ IF dirs # << >>
          THEN /\ index' = ensureIndexDb(db)
               /\ answer' = querySearchFromIndex(db, o)
          ELSE /\ index' = index
               /\ answer' = searchWithoutIndex(dirs, disk, o)
       /\ UNCHANGED requestVars

\* the loop of GET /api/search without the index applied to the directories,
\* next to what querySearchFromIndex answers for them
SearchBothWays ==
  \E q \in QParams, segment \in SegmentParams, on \in FilterSets,
     limit \in LimitParams :
    LET o == SearchOptions(q, segment, on, limit)
        dirs == getAllDateDirs(disk)
        db == ensureIndexForDates(index, dirs, disk)
    IN /\ answer = NoAnswer
       /\ index' = ensureIndexDb(db)
       /\ answer' = [kind |-> "both",
                     indexed |-> querySearchFromIndex(db, o),
                     live |-> searchWithoutIndex(dirs, disk, o)]
       /\ UNCHANGED requestVars

\* GET /api/data/totals, from getAllDateDirPaths to its response
Totals ==
  LET dirs == getAllDateDirs(disk)
      db == ensureIndexForDates(index, dirs, disk)
  IN /\ answer = NoAnswer
     /\ IF dirs # << >>
        THEN /\ index' = ensureIndexDb(db)
             /\ answer' = queryTotalsFromIndex(db, Len(dirs))
        ELSE /\ index' = index
             /\ answer' = totalsWithoutIndex
     /\ UNCHANGED requestVars

QueryNext == Search \/ SearchBothWays \/ Totals

QuerySpec == QueryInit /\ [][QueryNext]_vars

\* ---------------------------------------------------------------- data roots
\* The two data roots, PERSISTENT_DISK_DIR before LOCAL_DATA_DIR: a root is
\* NoRoot when its directory does not exist, else its entries
Root(entries) == [exists |-> TRUE, entries |-> entries]

Entry(name, isDirectory) == [name |-> name, isDirectory |-> isDirectory]

\* the entries of the model: two date directories, a file with the name of a
\* date, a directory that is no date
RootEntries ==
  {Entry("20260101", TRUE), Entry("20260102", TRUE), Entry("20260102", FALSE),
   Entry("notes", TRUE)}

\* what a root can be: absent, or entries with no name twice
RootStates ==
  {NoRoot} \cup {Root(es) : es \in {x \in SUBSET RootEntries :
                                     \A a, b \in x : a.name = b.name => a = b}}

\* /^\d{8}$/.test(name) on the names of the model
IsDateName(name) == name \in Dates

\* pathExists(root) and pathExists(join(root, name)): access succeeds on
\* files as on directories
rootExists(root) == root.exists
pathExists(root, name) ==
  rootExists(root) /\ \E e \in root.entries : e.name = name

\* the null getExistingDateDir returns
NoPath == [root |-> "none", name |-> ""]

\* join(baseDir, date)
Join(base, name) == [root |-> base, name |-> name]

\* a lookup that goes on to the local root when the persistent one lacks the
\* date
LookupFallingThrough(rs, date) ==
  IF pathExists(rs.persistent, date) THEN Join("persistent", date)
  ELSE IF pathExists(rs.local, date) THEN Join("local", date)
  ELSE NoPath

\* getExistingDateDir(date)
getExistingDateDir(rs, date) ==
  IF rootExists(rs.persistent)
  THEN IF pathExists(rs.persistent, date) THEN Join("persistent", date)
       ELSE NoPath
  ELSE IF pathExists(rs.local, date) THEN Join("local", date)
  ELSE NoPath

\* readdir(root, { withFileTypes: true }) filtered by isDirectory() and the
\* date pattern
DateEntries(root) ==
  {e.name : e \in {x \in root.entries : x.isDirectory /\ IsDateName(x.name)}}

\* a listing that adds the dates of every root that exists
DatesOfEveryRoot(rs) ==
  (IF rootExists(rs.persistent) THEN DateEntries(rs.persistent) ELSE {})
  \cup (IF rootExists(rs.local) THEN DateEntries(rs.local) ELSE {})

\* the Set dates of getAllDateDirs: the dates of the persistent root when it
\* exists, else those of the local root when it exists
ListedDates(rs) ==
  IF rootExists(rs.persistent) THEN DateEntries(rs.persistent)
  ELSE IF rootExists(rs.local) THEN DateEntries(rs.local)
  ELSE {}

\* Array.from(dates).sort((a, b) => b.localeCompare(a)): newest first
SortDescending(dates) == SelectSeq(DatesDescending, LAMBDA d : d \in dates)

\* the return of getAllDateDirPaths: the dates getAllDateDirs gave it joined
\* to the persistent root when it exists, else to the local root
getAllDateDirPaths(rs, dates) ==
  LET baseDir == IF rootExists(rs.persistent) THEN "persistent" ELSE "local"
  IN [i \in 1..Len(dates) |-> Join(baseDir, dates[i])]

\* the roots a deployment can have when a lookup or a listing runs
PathInit ==
  /\ roots \in [{"persistent", "local"} -> RootStates]
  /\ disk = [d \in Dates |-> NoDir]
  /\ index = NoIndex
  /\ committed = NoHistory
  /\ pc = [p \in Queries |-> "idle"]
  /\ dateDirs = [p \in Queries |-> << >>]
  /\ pending = [p \in Queries |-> << >>]
  /\ data = [p \in Queries |-> EmptyData]
  /\ upc = "idle"
  /\ udate = "20260101"
  /\ udata = EmptyData
  /\ cpc = "idle"
  /\ cfolders = << >>
  /\ reader = ReaderIdle
  /\ answer = NoAnswer

\* getExistingDateDir(date) is called
Lookup ==
  \E date \in Dates :
    /\ answer = NoAnswer
    /\ answer' = [kind |-> "lookup", date |-> date,
                  path |-> getExistingDateDir(roots, date)]
    /\ UNCHANGED <<handlerVars, reader, roots>>

\* getAllDateDirPaths() is called and awaits getAllDateDirs(); before keeps
\* the roots as they are at the call
ListDates ==
  /\ answer = NoAnswer
  /\ answer' = [kind |-> "listing", before |-> roots,
                dates |-> SortDescending(ListedDates(roots)), paths |-> << >>]
  /\ UNCHANGED <<handlerVars, reader, roots>>

\* the rest of getAllDateDirPaths, after its await
ListPaths ==
  /\ answer.kind = "listing"
  /\ answer' = [answer EXCEPT !.kind = "list",
                              !.paths = getAllDateDirPaths(roots, answer.dates)]
  /\ UNCHANGED <<handlerVars, reader, roots>>

\* while the listing awaits, clear-data removes a date folder of the root it
\* works on (rm of DELETE /api/admin/clear-data)
RemoveDate ==
  \E r \in {"persistent", "local"}, date \in Dates :
    /\ answer.kind = "listing"
    /\ r = IF rootExists(roots.persistent) THEN "persistent" ELSE "local"
    /\ Entry(date, TRUE) \in roots[r].entries
    /\ roots' = [roots EXCEPT ![r].entries = @ \ {Entry(date, TRUE)}]
    /\ UNCHANGED <<handlerVars, reader, answer>>

PathNext == Lookup \/ ListDates \/ ListPaths \/ RemoveDate

PathSpec == PathInit /\ [][PathNext]_vars

\* ------------------------------------------------------------------ C20
\* the mails stored for the company's own date hold one with its folder id
OwnDateMail(db, c) ==
  \E i \in 1..Len(db.mails) :
    db.mails[i].date = c.sourceDate /\ db.mails[i].mapp = c.company.mapp

\* the search of query p answers from the index
QAnswers(p) == pc[p] \in {"ensure", "index"} /\ pc'[p] = "answered"

\* C20 as stated: for every company of a search answer, hasMail is true
\* exactly when the mails of the company's own date hold a row with the
\* company's folder id.
C20_HasMailIsOfOwnDate ==
  [][\A p \in Queries :
       QAnswers(p)
         => \A i \in 1..Len(index'.companies) :
              enrichedCompanies(index')[i].hasMail
                <=> OwnDateMail(index', enrichedCompanies(index')[i])]_vars

\* ------------------------------------------------------------------ C21
\* a search has answered with its lists
Searched == answer.kind = "search" /\ answer.status = 200

\* an evaluation of the index is linked to the company row (it carries the
\* row's folder id) and its verdict is "ja"
LinkedJa(db, row) ==
  /\ row.mapp # ""
  /\ \E i \in 1..Len(db.evaluations) :
       /\ db.evaluations[i].mapp = row.mapp
       /\ IsJa(db.evaluations[i].ska_fa_sajt)

\* C21 as stated: for every company row a search returns, worthySite is true
\* exactly when the company's own ska_fa_sajt is "ja" whatever its case, or an
\* evaluation linked to the company by its folder id has the verdict "ja".
C21_WorthySiteIsOwnOrLinked ==
  Searched
    => \A i \in 1..Len(answer.companies) :
         answer.companies[i].worthySite
           <=> \/ IsJa(answer.companies[i].company.ska_fa_sajt)
               \/ LinkedJa(index, answer.companies[i].company)

\* the same for the rows that have a folder id
C21_HoldsWithFolderId ==
  Searched
    => \A i \in 1..Len(answer.companies) :
         answer.companies[i].company.mapp # ""
           => (answer.companies[i].worthySite
                 <=> \/ IsJa(answer.companies[i].company.ska_fa_sajt)
                     \/ LinkedJa(index, answer.companies[i].company))

\* ------------------------------------------------------------------ C22
\* the natural key of a company of an answer: its folder id, else its
\* organisation number
AnswerKey(c) ==
  IF OrEmpty(c.company.mapp) # "" THEN c.company.mapp
  ELSE OrEmpty(c.company.orgnr)

\* the six flags of a company of an answer
AnswerFlags(c) ==
  <<c.hasMail, c.hasAudit, c.hasPreview, c.worthySite, c.hasEmail, c.hasDomain>>

\* every company of the list a is in the list b, with the same flags
SameIn(a, b) ==
  \A i \in 1..Len(a) :
    \E j \in 1..Len(b) :
      AnswerKey(a[i]) = AnswerKey(b[j]) /\ AnswerFlags(a[i]) = AnswerFlags(b[j])

\* both paths have answered the same request over the same directories
BothAnswered == answer.kind = "both" /\ answer.indexed.status = 200

\* C22 as stated: over the same date directories and with the same filters,
\* querySearchFromIndex and the loop of GET without the index select the same
\* companies and give each of them the same six flags.
C22_PathsAgree ==
  BothAnswered
    => /\ SameIn(answer.indexed.companies, answer.live.companies)
       /\ SameIn(answer.live.companies, answer.indexed.companies)

\* ------------------------------------------------------------------ C23
\* the totals have been answered from the index
Totalled == answer.kind = "totals" /\ answer.totalDates > 0

\* the index without row i of companies
WithoutCompany(db, i) ==
  [db EXCEPT !.companies =
     SubSeq(db.companies, 1, i - 1) \o SubSeq(db.companies, i + 1, Len(db.companies))]

\* rows i and j of companies are of two dates and carry one organisation
\* number
SameOrgnrTwoDates(db, i, j) ==
  /\ db.companies[i].date # db.companies[j].date
  /\ db.companies[i].orgnr # ""
  /\ db.companies[i].orgnr = db.companies[j].orgnr

\* row i adds nothing to totalCompanies: the total is the one of the index
\* without the row
CountedOnce(db, i) ==
  queryTotalsFromIndex(WithoutCompany(db, i), answer.totalDates).totalCompanies
    = answer.totalCompanies

\* C23 as stated: when company rows of two indexed dates carry the same
\* organisation number, totalCompanies counts them once, whatever their
\* folder ids are.
C23_SameOrgnrCountedOnce ==
  Totalled
    => \A i, j \in 1..Len(index.companies) :
         SameOrgnrTwoDates(index, i, j) => CountedOnce(index, i)

\* C23 amended: when company rows of two indexed dates carry the same
\* organisation number and the same folder id, or the same organisation
\* number and no folder id, totalCompanies counts them once.
C23_SameKeyCountedOnce ==
  Totalled
    => \A i, j \in 1..Len(index.companies) :
         /\ SameOrgnrTwoDates(index, i, j)
         /\ index.companies[i].mapp = index.companies[j].mapp
         => CountedOnce(index, i)

\* Acme is indexed for both dates with the folder id X1 and the total is 1
C23_Witness ==
  /\ Totalled
  /\ Len(index.companies) = 2
  /\ SameOrgnrTwoDates(index, 1, 2)
  /\ index.companies[1].mapp = "X1"
  /\ index.companies[2].mapp = "X1"
  /\ answer.totalCompanies = 1

\* ------------------------------------------------------------------ C24
\* the natural keys of the companies of the directory of date d whose flag,
\* derived from the data of that date, is true
FlaggedOfDate(dk, d, flag) ==
  IF ~Readable(dk[d]) THEN {}
  ELSE LET dd == readDateData(dk[d])
       IN {IF Truthy(dd.companies[i].mapp) THEN dd.companies[i].mapp
           ELSE dd.companies[i].orgnr :
             i \in {j \in 1..Len(dd.companies) :
                      dateFlags(dd, dd.companies[j])[flag]}}

\* the union of these sets over all dates
Flagged(dk, flag) == UNION {FlaggedOfDate(dk, d, flag) : d \in Dates}

\* C24 as stated: each capability total of getTotals is the size of the union,
\* over all dates, of the set of companies whose flag derived for that date is
\* true.
C24_TotalsAreUnionsOfFlags ==
  Totalled
    => /\ answer.companiesWithMail = Cardinality(Flagged(disk, "hasMail"))
       /\ answer.companiesWithAudit = Cardinality(Flagged(disk, "hasAudit"))
       /\ answer.companiesWithPreview = Cardinality(Flagged(disk, "hasPreview"))
       /\ answer.companiesWorthySite = Cardinality(Flagged(disk, "worthySite"))
       /\ answer.companiesWithEmail = Cardinality(Flagged(disk, "hasEmail"))
       /\ answer.companiesWithDomain = Cardinality(Flagged(disk, "hasDomain"))

\* ------------------------------------------------------------------ C25
\* the rows of people without personal id
WithoutPersonalId(db) ==
  {i \in 1..Len(db.people) : db.people[i].personnummer = ""}

\* the keys (personal id, registration id) of the rows that have a personal id
KeysWithPersonalId(db) ==
  {<<db.people[i].personnummer, db.people[i].kungorelse_id>> :
     i \in (1..Len(db.people)) \ WithoutPersonalId(db)}

\* C25 as stated: every row of people without personal id adds 1 to
\* totalPeople, whatever its registration id, next to one per key of the rows
\* that have a personal id.
C25_EmptyPersonalIdCountsEach ==
  Totalled
    => answer.totalPeople
         = Cardinality(KeysWithPersonalId(index))
             + Cardinality(WithoutPersonalId(index))

\* ------------------------------------------------------------------ C26
\* GET /api/search has answered, with its lists or with an error
SearchAnswered == answer.kind = "search"

\* the rows of companies of the index that the filters of the answer select
MatchingRows(db, o) == SelectSeq(db.companies, LAMBDA r : Where(db, r, o))

\* the most rows a limit allows: none for a negative limit
AtMost(limit) == IF limit.n < 0 THEN 0 ELSE limit.n

\* C26 as stated: whatever the limit parameter is (0, negative and non-numeric
\* values included), the search answers with at most limit company rows, and
\* totalCompanies is the number of rows the filters select, hence at least the
\* number of rows returned.
C26_LimitBoundsTheRows ==
  SearchAnswered
    => /\ answer.status = 200
       /\ ~answer.options.limit.nan
            => Len(answer.companies) <= AtMost(answer.options.limit)
       /\ answer.totalCompanies = Len(MatchingRows(index, answer.options))
       /\ answer.totalCompanies >= Len(answer.companies)

\* the part of C26 that holds: when the search answers with its lists,
\* totalCompanies is the number of rows the filters select whatever the limit
\* is, and a limit that is not negative bounds the rows returned
C26_HoldsForNaturalLimits ==
  Searched
    => /\ answer.totalCompanies = Len(MatchingRows(index, answer.options))
       /\ answer.totalCompanies >= Len(answer.companies)
       /\ answer.options.limit.n >= 0
            => Len(answer.companies) <= answer.options.limit.n

\* ------------------------------------------------------------------ C27
\* an answer with its lists holds no person and counts none
NoPeople(a) == a.people = << >> /\ a.totalPeople = 0

\* C27: a search whose free-text query is empty answers with an empty people
\* list and totalPeople = 0, whatever its other filters are, from the index
\* as well as from the loop over the directories.
C27_NoPeopleWithoutQuery ==
  /\ Searched /\ answer.options.query = "" => NoPeople(answer)
  /\ BothAnswered /\ answer.indexed.options.query = ""
       => NoPeople(answer.indexed) /\ NoPeople(answer.live)

\* a search with a filter and no query has answered over an index that holds
\* people
C27_Witness ==
  /\ Searched
  /\ answer.options.query = ""
  /\ answer.options.hasMail
  /\ answer.companies # << >>
  /\ index.people # << >>

\* ------------------------------------------------------------------ C28
\* the directory being read holds a source file that cannot be opened
HoldsMalformed ==
  \E i \in 1..Len(reader.files) : Malformed(reader.files[i].name)

\* the directory being read holds a file with rows next to it
HoldsRows ==
  \E i \in 1..Len(reader.files) :
    reader.files[i].companies # << >> \/ reader.files[i].mails # << >>

\* C28 as stated: a source file that cannot be opened or parsed contributes
\* no rows, and readDateData returns the data of the directory's other files
\* without throwing.
C28_FailedFileIsSkipped ==
  HoldsMalformed /\ HoldsRows => reader.pc # "thrown"

\* ------------------------------------------------------------------ C29
\* getExistingDateDir has answered
LookedUp == answer.kind = "lookup"

\* C29 as stated: the lookup of a date returns the date's path in the first
\* root, in priority order, that exists and holds the date; a date that only
\* the local root holds is found although the persistent root exists.
C29_FirstRootWithDateWins ==
  LookedUp
    => /\ pathExists(roots.persistent, answer.date)
            => answer.path = Join("persistent", answer.date)
       /\ ~pathExists(roots.persistent, answer.date)
            /\ pathExists(roots.local, answer.date)
            => answer.path = Join("local", answer.date)
       /\ ~pathExists(roots.persistent, answer.date)
            /\ ~pathExists(roots.local, answer.date)
            => answer.path = NoPath

\* C29 amended: the lookup looks in one root only, the persistent root when it
\* exists and the local root otherwise. A path it returns is the one of an
\* entry of that root with the date's name; a path in the local root is
\* returned only when the persistent root does not exist; and it returns null
\* exactly when that one root has no entry with the date's name, whatever the
\* other root holds.
C29_OnlyTheFirstExistingRoot ==
  LookedUp
    => /\ answer.path # NoPath
            => /\ answer.path.name = answer.date
               /\ pathExists(roots[answer.path.root], answer.date)
       /\ answer.path.root = "local" => ~rootExists(roots.persistent)
       /\ answer.path = NoPath
            => IF rootExists(roots.persistent)
               THEN ~pathExists(roots.persistent, answer.date)
               ELSE ~pathExists(roots.local, answer.date)

\* the persistent root exists without the date, the local root holds it, and
\* the lookup has returned null
C29_Witness ==
  /\ LookedUp
  /\ rootExists(roots.persistent)
  /\ ~pathExists(roots.persistent, answer.date)
  /\ pathExists(roots.local, answer.date)
  /\ answer.path = NoPath

\* ------------------------------------------------------------------ C30
\* getAllDateDirPaths has answered
Listed == answer.kind = "list"

\* the names of the paths of the answer
ListedNames == {answer.paths[i].name : i \in 1..Len(answer.paths)}

\* every path of the answer is a date directory of its root in rs
PathsAreDirectories(rs) ==
  \A i \in 1..Len(answer.paths) :
    /\ rootExists(rs[answer.paths[i].root])
    /\ answer.paths[i].name \in DateEntries(rs[answer.paths[i].root])

UReads == upc = "read" /\ upc' # "read"

ScenarioFiles ==
  <<File("a.db", <<cAcme>>, << >>, << >>, << >>, << >>),
    File("mail_ready_1.xlsx", << >>, << >>, <<mHej>>, << >>, << >>)>>

\* what readDateData returns for a directory that lists them
ScenarioData ==
  ReadResult(ReadXlsxFile(ReadDbFiles(ReaderStart, ScenarioFiles),
                          ScenarioFiles[2])).data

\* the only date directory is d, and its companies, mails, audits and
\* evaluations are those of the scenario
ScenarioOn(d) ==
  /\ \A e \in Dates \ {d} : disk[e] = NoDir
  /\ Readable(disk[d])
  /\ readDateData(disk[d]).companies = ScenarioData.companies
  /\ readDateData(disk[d]).mails = ScenarioData.mails
  /\ readDateData(disk[d]).audits = ScenarioData.audits
  /\ readDateData(disk[d]).evaluations = ScenarioData.evaluations

\* GET /api/search?segment=Bygg, no query and no flag
ScenarioSearch ==
  /\ answer.kind = "search"
  /\ answer.options = SearchOptions(Null, "Bygg", {}, Null)

Absent == "<absent>"

\* the keys of the model: two synonyms of mapp and two of segment
RawKeys == {"Mapp", "mapp", "Segment", "segment"}

\* the values a cell or a column holds in the model
RawValues == {"X1", "X2", "", " "}

RawRecords == [RawKeys -> RawValues \cup {Absent}]

\* COMPANY_FIELD_MAP restricted to the keys of the model, in the order of its
\* entries (the spreadsheet columns come before the snake_case ones)
COMPANY_FIELD_MAP ==
  <<[sourceKey |-> "Mapp", targetKey |-> "mapp"],
    [sourceKey |-> "Segment", targetKey |-> "segment"],
    [sourceKey |-> "mapp", targetKey |-> "mapp"],
    [sourceKey |-> "segment", targetKey |-> "segment"]>>

\* String(value).trim() on the values of the model
Trim(v) == IF v = " " THEN "" ELSE v

\* normalizeValue on a string (or undefined, or null)
normalizeValue(value) ==
  IF value = Absent \/ value = Null \/ value = "" THEN Null
  ELSE IF Trim(value) = "" THEN Null ELSE Trim(value)

\* asString: the value is a string or null already
asString(value) == normalizeValue(value)

RECURSIVE AssignEach(_, _, _)
\* for (const [sourceKey, targetKey] of Object.entries(COMPANY_FIELD_MAP))
\*   if (sourceKey in raw) result[targetKey] = normalizeValue(raw[sourceKey])
AssignEach(result, entries, raw) ==
  IF entries = << >> THEN result
  ELSE LET e == Head(entries)
       IN AssignEach(
            IF raw[e.sourceKey] # Absent
            THEN [result EXCEPT ![e.targetKey] = normalizeValue(raw[e.sourceKey])]
            ELSE result,
            Tail(entries), raw)

\* normalizeCompany(raw), for the fields the keys of the model map to: mapp
\* is asString(result.mapp) ?? "", segment is asString(result.segment)
normalizeCompany(raw) ==
  LET result == AssignEach([mapp |-> Absent, segment |-> Absent],
                           COMPANY_FIELD_MAP, raw)
  IN [mapp |-> OrEmpty(asString(result.mapp)),
      segment |-> asString(result.segment)]

\* one raw row of a companies table or sheet is about to be normalized
NormalizeInit ==
  /\ \E raw \in RawRecords : answer = [kind |-> "raw", raw |-> raw]
  /\ disk = [d \in Dates |-> NoDir]
  /\ index = NoIndex
  /\ committed = NoHistory
  /\ pc = [p \in Queries |-> "idle"]
  /\ dateDirs = [p \in Queries |-> << >>]
  /\ pending = [p \in Queries |-> << >>]
  /\ data = [p \in Queries |-> EmptyData]
  /\ upc = "idle"
  /\ udate = "20260101"
  /\ udata = EmptyData
  /\ cpc = "idle"
  /\ cfolders = << >>
  /\ reader = ReaderIdle
  /\ roots = NoRoots

\* normalizeCompanies maps normalizeCompany over the rows
Normalize ==
  /\ answer.kind = "raw"
  /\ answer' = [kind |-> "normalized", raw |-> answer.raw,
                company |-> normalizeCompany(answer.raw)]
  /\ UNCHANGED <<handlerVars, reader, roots>>

NormalizeNext == Normalize

NormalizeSpec == NormalizeInit /\ [][NormalizeNext]_vars

\* ------------------------------------------------------------------ C33
\* the entries of the table for a field whose key the record has, in order
PresentSynonyms(raw, field) ==
  SelectSeq(COMPANY_FIELD_MAP,
            LAMBDA e : e.targetKey = field /\ raw[e.sourceKey] # Absent)

\* the value of the first synonym of the field that the record has, null
\* when it has none
FirstSynonymValue(raw, field) ==
  IF PresentSynonyms(raw, field) = << >> THEN Null
  ELSE normalizeValue(raw[Head(PresentSynonyms(raw, field)).sourceKey])

Normalized == answer.kind = "normalized"

\* C33: the normalized field of a raw record that has several synonyms of
\* one field is the value of the first of them in the order of the synonym
\* table; a later synonym, even with an empty value, never overrides it.
C33_FirstSynonymWins ==
  Normalized
    => /\ answer.company.mapp = OrEmpty(FirstSynonymValue(answer.raw, "mapp"))
       /\ answer.company.segment = FirstSynonymValue(answer.raw, "segment")

\* ------------------------------------------------------------------ C34
\* a search with a query and nothing else, its limit above the number of rows
OnlyQuery ==
  /\ Searched
  /\ \E q \in QParams \ {Null} : answer.options = SearchOptions(q, Null, {}, Null)

\* C34: with only a query q set, a company row of the index is returned if
\* and only if the lowercased q is a literal substring of its search_text,
\* also when q holds the character % or _.
C34_QueryIsLiteralSubstring ==
  OnlyQuery
    => \A i \in 1..Len(index.companies) :
         (\E j \in 1..Len(answer.companies) :
            answer.companies[j].company = index.companies[i])
           <=> LiteralSubstring(index.companies[i].search_text,
                                answer.options.query)

\* the same for the queries without % and _
C34_HoldsWithoutWildcard ==
  OnlyQuery /\ answer.options.query # "_"
    => \A i \in 1..Len(index.companies) :
         (\E j \in 1..Len(answer.companies) :
            answer.companies[j].company = index.companies[i])
           <=> LiteralSubstring(index.companies[i].search_text,
                                answer.options.query)

\* ------------------------------------------------------------------ C35
\* the rows and the markers of the date are the same before and after the step
LeftAlone(d) ==
  /\ RowsRead(index', d) = RowsRead(index, d)
  /\ MarkersOf(index', d) = MarkersOf(index, d)

\* a step of the handler of query p
QSteps(p) == pc'[p] # pc[p]

StoredVersionIsCompiled(db) ==
  /\ isIndexAvailable(db)
  /\ db.schemaTable = "ok"
  /\ db.version = SCHEMA_VERSION

\* the rows of the five content tables and the markers of the file
ContentOf(db) ==
  <<db.companies, db.people, db.mails, db.audits, db.evaluations,
    db.indexed_dates>>

\* C36: opening a file whose stored schema version equals SCHEMA_VERSION
\* leaves every content row and every indexed_dates marker unchanged, for
\* any number of consecutive opens: the open of getIndexedDates and of the
\* query that follows it change nothing, the opened file is one that a next
\* open leaves as it is, and the open at the start of indexDateData leaves
\* the rows and markers to the statements that follow it.
C36_OpenAtCompiledVersionKeepsRows ==
  [][StoredVersionIsCompiled(index)
       => /\ ContentOf(ensureIndexDb(index)) = ContentOf(index)
          /\ ensureIndexDb(ensureIndexDb(index)) = ensureIndexDb(index)
          /\ getIndexedDates(index) = Recorded(index)
          /\ \A p \in Queries :
               QOpens(p)
                 => /\ ContentOf(index') = ContentOf(index)
                    /\ StoredVersionIsCompiled(index')
          /\ \A p \in Queries :
               QCommits(p)
                 => \E now \in Times :
                      ContentOf(index')
                        = ContentOf(RunStatements(index, 11, Head(pending[p]),
                                                  data[p], now))]_vars

\* a query has opened, twice, a file of the compiled version that holds the
\* rows of DataA, and has answered from it
C36_Witness ==
  \E p \in Queries :
    /\ pc[p] = "answered"
    /\ StoredVersionIsCompiled(index)
    /\ committed["20260101"] = <<DataA>>
    /\ RowsRead(index, "20260101") = RowsOf("20260101", DataA)
    /\ MarkerCount(index, "20260101") = 1

\* ------------------------------------------------------------------ C37
\* a search with the one filter f and nothing else
OnlyFilter(f) ==
  /\ Searched
  /\ answer.options = SearchOptions(Null, Null, {f}, Null)

\* the answer of the search without any filter over the same file
Unfiltered == querySearchFromIndex(index, SearchOptions(Null, Null, {}, Null))

\* the rows the filtered search selected, and the rows the unfiltered search
\* shows with the flag f
SelectedRows == {answer.companies[i].company : i \in 1..Len(answer.companies)}
ShownWith(f) ==
  {Unfiltered.companies[i].company :
     i \in {j \in 1..Len(Unfiltered.companies) : Unfiltered.companies[j][f]}}

\* C37: for each of the six filters, the company rows a search with only that
\* filter selects are the rows the unfiltered search shows with the flag of
\* the same name true; no row the hasDomain filter excludes is shown with
\* hasDomain = true.
C37_FilterSelectsTheFlagged ==
  \A f \in Flags : OnlyFilter(f) => SelectedRows = ShownWith(f)

\* the same for the five filters other than hasDomain
C37_HoldsForTheOtherFilters ==
  \A f \in Flags \ {"hasDomain"} : OnlyFilter(f) => SelectedRows = ShownWith(f)

\* ------------------------------------------------------------------ C38
\* no handler is running
AllIdle ==
  /\ \A p \in Queries : pc[p] = "idle"
  /\ upc = "idle"
  /\ cpc = "idle"

\* C38 as stated, for the states that no handler is in the middle of (the
\* steps of clear-data itself between its first rm and the rm of the index
\* file are left out): each date recorded in indexed_dates has a date directory
\* on disk, so that no query suspended in a read has re-created rows for a
\* date clear-data deleted in the meantime.
C38_RecordedDatesHaveDirectories ==
  AllIdle => \A d \in Recorded(index) : disk[d] # NoDir

\* ------------------------------------------------------------------ C39
\* the file holds for d the rows of the files the directory of d holds
RowsOfTheFiles(db, d) ==
  /\ Readable(disk[d])
  /\ d \in Recorded(db)
  /\ RowsRead(db, d) = RowsOf(d, readDateData(disk[d]))

\* C39 as stated: once an upload of D has finished and D is stored with the
\* rows of the uploaded files, no query that was indexing D commits another
\* read of D: the rows of D stay those of the complete uploaded files.
C39_QueryCannotCommitOlderRead ==
  [][\A p \in Queries :
       /\ QCommits(p)
       /\ upc = "idle"
       /\ RowsOfTheFiles(index, Head(pending[p]))
       => RowsOfTheFiles(index', Head(pending[p]))]_vars

\* ------------------------------------------------------------------ C40
\* the natural keys of the companies the unfiltered search shows with flag f
KeysShownWith(f) ==
  {companyKey(Unfiltered.companies[i].company) :
     i \in {j \in 1..Len(Unfiltered.companies) : Unfiltered.companies[j][f]}}

\* C40 as stated: companiesWorthySite and companiesWithEmail of the totals
\* are the numbers of distinct companies, by natural key, that the unfiltered
\* search over the same file shows with worthySite and with hasEmail.
C40_TotalsAgreeWithSearch ==
  Totalled
    => /\ answer.companiesWorthySite = Cardinality(KeysShownWith("worthySite"))
       /\ answer.companiesWithEmail = Cardinality(KeysShownWith("hasEmail"))

====
